---- MODULE Spec2Model ----
(***************************************************************************)
(* pulse: the concurrent analysis engine of internal/core.                 *)
(*                                                                         *)
(*   Spec         Pool.Process (pool.go): W workers draining the jobs      *)
(*                channel, one Analyze per path, the results channel, the  *)
(*                collecting loop and the final SortByLastActive.          *)
(*   SpecAnalyze  Analyzer.Analyze (analyzer.go) phase by phase over one   *)
(*                repository drawn from a bounded set of commit graphs.    *)
(*                                                                         *)
(* A repository on disk is a record                                        *)
(*   openOk     git.PlainOpen succeeds                                     *)
(*   openErr    the message of the error PlainOpen returns otherwise       *)
(*   headState  "branch" | "detached" | "unresolved"  (repo.Head())        *)
(*   branch     short name of the checked-out branch                       *)
(*   parents    commit graph: parents[c] is the ordered parent list of c   *)
(*   when       when[c] is the author time of commit c                     *)
(*   local      the commit HEAD resolves to (0 when unresolved)            *)
(*   remote     the commit refs/remotes/origin/<short name of HEAD> points *)
(*              to, 0 when the reference does not exist                    *)
(*   mbFirst    the commit go-git's MergeBase lists first (0 when none)    *)
(*   objectsOk  the commit objects can be read (repo.Log, CommitObject)    *)
(*   probeOk    `git status --porcelain` exits successfully                *)
(*   changed    number of entries the probe prints                         *)
(*   statsOk    commit.Stats() succeeds                                    *)
(*   added, removed   lines each commit adds and removes                   *)
(* Times are integers; 0 is the zero time.Time.                            *)
(***************************************************************************)
EXTENDS Integers, Sequences, FiniteSets, TLC

\* ---------------------------------------------------------------- bounds
MaxPaths == 2
MaxWorkers == 2
MaxCommits == 4
MaxChanged == 2
MaxLinear == 6
MaxSpans == 3
MaxDur == 3
MaxExports == 2
MaxClock == 2
MaxLevels == 3

\* ------------------------------------------------------ program constants
\* analyzeRecentCommits keeps at most this many commits
RecentLimit == 5

VARIABLES
    \* ---- Pool.Process
    workerCount,    \* Pool.workerCount
    detailMode,     \* Analyzer.detailMode
    ghostThreshold, \* Analyzer.ghostThreshold, in days
    tracingOn,      \* tracing.Init(true) installed the recording provider
    ctxSpan,        \* the span carried by the ctx handed to Process
    trace,          \* the spans ended so far
    openSpans,      \* the spans started and not ended yet
    repoPaths,      \* the argument repoPaths
    repos,          \* the repository found at each path
    jobs,           \* chan string, capacity len(repoPaths)
    jobsClosed,
    results,        \* chan result, capacity len(repoPaths)
    resultsClosed,
    wg,             \* sync.WaitGroup counter
    wpc,            \* per worker: "recv" | "analyze" | "done"
    wpath,          \* per worker: the path it is analysing (0: none)
    mainPc,         \* "enqueue" | "collect" | "returned"
    next,           \* index of the next path to enqueue
    statuses,       \* []RepoStatus
    errors,         \* []ScanError
    ctxDone,        \* ctx has been cancelled
    claimedBy,      \* observation: workers that received each path
    analyzeCalls,   \* observation: Analyze invocations per path
    rerun,          \* observation: this is a second Process call
    prevStatuses,   \* observation: statuses returned by the previous call
    \* ---- Analyzer.Analyze
    aRepo,          \* the repository at repoPath
    aPc,            \* the phase about to run, or "returned" / "idle"
    aStatus,        \* *RepoStatus under construction
    aErr,           \* the returned error ("" is nil)
    aPhases,        \* the phases run so far, in order
    aSpans,         \* the Start and End calls made so far, in order
    \* ---- Scanner.Scan
    rawConfig,      \* the ScanConfig handed to NewScanner
    config,         \* Scanner.config
    found,          \* what findRepos returned
    scanResult,     \* the *ScanResult returned (length 0: nil)
    scanErr,        \* the error returned (length 0: nil)
    \* ---- cli.RenderTimings
    spanLog,        \* what exp.Spans() returns
    tPc,            \* "render" | "done" | "idle"
    parsed,         \* the parsedSpans (length 0: not parsed)
    timings,        \* the figures printed (length 0: none)
    waterfall,      \* the bar printed for each of p.analyzes: startCol, barLen
    tree,           \* the ids of the spans renderSpanTree printed, in order
    \* ---- tracing.CollectingExporter
    expMu,          \* e.mu: the goroutine holding it, or Unlocked
    expSpans,       \* e.spans
    epc,            \* per exporting goroutine: where it is in ExportSpans
    ecalls,         \* per exporting goroutine: ExportSpans calls returned
    elocal,         \* per exporting goroutine: the e.spans it has loaded
    exportedSet,    \* observation: spans of the calls that returned
    rpc,            \* where the reader is: Spans(), then using the result
    snapArr,        \* the array behind the slice Spans() returned
    snapshot,       \* the contents of the slice Spans() returned
    \* ---- main
    showTimings,    \* cliConfig.ShowTimings
    exporter,       \* what tracing.Init returned: "nil" | "collector"
    clock,          \* the time time.Now() reads
    \* ---- Scanner.findRepos
    dirs,           \* the directories under the root path, each the list
                    \* of names leading to it from the root (<<>>: the root)
    walkStack,      \* the entries godirwalk has still to hand to the callback
    walkRepos,      \* the local repos of findRepos
    walked,         \* observation: the directories the walk descended into
    wkPc            \* "walk" | "done" | "idle"

poolVars == <<workerCount, detailMode, ghostThreshold, tracingOn, ctxSpan, trace, openSpans,
              repoPaths, repos, jobs, jobsClosed,
              results, resultsClosed, wg, wpc, wpath, mainPc, next, statuses,
              errors, ctxDone, claimedBy, analyzeCalls, rerun, prevStatuses>>
analyzeVars == <<aRepo, aPc, aStatus, aErr, aPhases, aSpans>>
scanVars == <<rawConfig, config, found, scanResult, scanErr>>
\* what the steps of Process leave alone, and what the steps of Analyze do
timingVars == <<spanLog, tPc, parsed, timings, waterfall, tree>>
exportVars == <<expMu, expSpans, epc, ecalls, elocal, exportedSet, rpc, snapArr,
                snapshot>>
mainVars == <<showTimings, exporter, clock>>
findVars == <<dirs, walkStack, walkRepos, walked, wkPc>>
outsidePool == <<analyzeVars, scanVars, timingVars, exportVars, mainVars, findVars>>
outsideAnalyze == <<poolVars, scanVars, timingVars, exportVars, mainVars, findVars>>
outsideTimings == <<poolVars, analyzeVars, scanVars, exportVars, mainVars, findVars>>
outsideExport == <<poolVars, analyzeVars, scanVars, timingVars, mainVars, findVars>>
vars == <<poolVars, analyzeVars, scanVars, timingVars, exportVars, mainVars,
          findVars>>


\* ------------------------------------------------------------------ time
\* the current day (time.Now()); commit times are days before it
Now == 60
\* analyzeLinesChanged looks back 7 * 24 hours
LinesWindow == 7
\* the largest time.Duration (1<<63 - 1 nanoseconds), in whole days
MaxDuration == 106751

\* time.Since(t): Now - t; the distance to the zero time does not fit a
\* Duration, and Time.Sub then returns the largest one
Since(t) == IF t = 0 THEN MaxDuration ELSE Now - t

\* ----------------------------------------------------------- go-git model
Range(s) == {s[i] : i \in 1..Len(s)}

\* filteredParentIter: the parents of c not yet seen, in parent order
filteredParents(parents, c, seen) ==
    SelectSeq(parents[c], LAMBDA p : p \notin seen)

\* commitPreIterator.Next, iterated to exhaustion: depth-first pre-order over
\* a stack of parent iterators, skipping commits already seen
RECURSIVE preorderWalk(_, _, _, _)
preorderWalk(parents, stack, seen, out) ==
    IF stack = <<>> THEN out
    ELSE LET top == stack[Len(stack)] IN
         IF top = <<>>
         THEN preorderWalk(parents, SubSeq(stack, 1, Len(stack) - 1), seen, out)
         ELSE LET c == Head(top)
                  stack1 == [stack EXCEPT ![Len(stack)] = Tail(top)]
              IN IF c \in seen
                 THEN preorderWalk(parents, stack1, seen, out)
                 ELSE LET seen1 == seen \cup {c}
                          stack2 == IF Len(parents[c]) > 0
                                    THEN Append(stack1, filteredParents(parents, c, seen1))
                                    ELSE stack1
                      IN preorderWalk(parents, stack2, seen1, Append(out, c))

\* repo.Log(&git.LogOptions{From: from}): the commits in the order the
\* default (pre-order) iterator yields them
Log(repo, from) == preorderWalk(repo.parents, << <<from>> >>, {}, <<>>)

\* repo.Log fails when HEAD cannot be resolved or the objects cannot be read
LogFromHeadOk(repo) == repo.headState # "unresolved" /\ repo.objectsOk

\* the commits reachable from c, c included
RECURSIVE Ancestors(_, _)
Ancestors(parents, c) ==
    {c} \cup UNION {Ancestors(parents, p) : p \in Range(parents[c])}

\* the best common ancestors of a and b (what Commit.MergeBase returns)
MergeBases(parents, a, b) ==
    LET common == Ancestors(parents, a) \cap Ancestors(parents, b)
    IN {c \in common : \A d \in common \ {c} : c \notin Ancestors(parents, d)}

\* ------------------------------------------------------------ analyzer.go
\* &RepoStatus{Name: ..., Path: repoPath}: every other field is zero
NewRepoStatus(path) ==
    [Path |-> path, Branch |-> "", IsClean |-> FALSE, ChangedFiles |-> 0,
     LastCommitTime |-> 0, UnpushedCommits |-> 0, UnpulledCommits |-> 0,
     RecentCommits |-> <<>>, LinesChanged |-> <<>>, IsGhost |-> FALSE]

\* head.Name().Short()
HeadShortName(repo) ==
    IF repo.headState = "branch" THEN repo.branch ELSE "HEAD"

analyzeBranch(repo, status) ==
    IF repo.headState = "unresolved"
    THEN [status EXCEPT !.Branch = "unknown"]
    ELSE [status EXCEPT !.Branch = HeadShortName(repo)]

\* the bytes `git status --porcelain` prints for k entries: one line each
RECURSIVE PorcelainOutput(_)
PorcelainOutput(k) ==
    IF k = 0 THEN <<>> ELSE <<"XY", "\n">> \o PorcelainOutput(k - 1)

\* bytes.TrimRight(out, "\n")
RECURSIVE TrimRightNewlines(_)
TrimRightNewlines(out) ==
    IF out # <<>> /\ out[Len(out)] = "\n"
    THEN TrimRightNewlines(SubSeq(out, 1, Len(out) - 1))
    ELSE out

\* bytes.Count(b, []byte("\n"))
CountNewlines(b) == Cardinality({i \in 1..Len(b) : b[i] = "\n"})

\* variant: the last line, which TrimRight leaves unterminated, is not counted
analyzeWorktreeNewlinesOnly(repo, status) ==
    IF ~repo.probeOk THEN status
    ELSE LET out == PorcelainOutput(repo.changed)
             lines == CountNewlines(TrimRightNewlines(out))
         IN [status EXCEPT !.IsClean = (Len(out) = 0), !.ChangedFiles = lines]

analyzeWorktree(repo, status) ==
    IF ~repo.probeOk THEN status
    ELSE LET out == PorcelainOutput(repo.changed)
             lines == CountNewlines(TrimRightNewlines(out))
                      + (IF Len(out) > 0 THEN 1 ELSE 0)
         IN [status EXCEPT !.IsClean = (Len(out) = 0), !.ChangedFiles = lines]

\* variant: a lookup that fails stamps the status with the current time
analyzeLastCommitStamped(repo, status) ==
    IF ~LogFromHeadOk(repo) THEN [status EXCEPT !.LastCommitTime = Now]
    ELSE LET log == Log(repo, repo.local)
         IN IF log = <<>> THEN [status EXCEPT !.LastCommitTime = Now]
            ELSE [status EXCEPT !.LastCommitTime = repo.when[log[1]]]

analyzeLastCommit(repo, status) ==
    IF ~LogFromHeadOk(repo) THEN status
    ELSE LET log == Log(repo, repo.local)
         IN IF log = <<>> THEN status
            ELSE [status EXCEPT !.LastCommitTime = repo.when[log[1]]]

\* number of elements of log before the first occurrence of from
RECURSIVE CountUntil(_, _)
CountUntil(log, from) ==
    IF log = <<>> \/ Head(log) = from THEN 0
    ELSE 1 + CountUntil(Tail(log), from)

\* variant: the walk counts the commit it stops at
countCommitsBetweenInclusive(repo, from, to) ==
    IF from = to THEN 0
    ELSE IF ~repo.objectsOk THEN 0
    ELSE CountUntil(Log(repo, to), from) + 1

countCommitsBetween(repo, from, to) ==
    IF from = to THEN 0
    ELSE IF ~repo.objectsOk THEN 0
    ELSE CountUntil(Log(repo, to), from)

\* variant: a detached HEAD is compared with origin/HEAD like a branch
analyzeRemoteStatusAnyHead(repo, status) ==
    IF repo.headState = "unresolved" THEN status
    ELSE IF repo.remote = 0 THEN status
    ELSE IF repo.local = repo.remote THEN status
    ELSE IF ~repo.objectsOk THEN status
    ELSE IF repo.mbFirst = 0 THEN status
    ELSE [status EXCEPT
            !.UnpushedCommits = countCommitsBetween(repo, repo.mbFirst, repo.local),
            !.UnpulledCommits = countCommitsBetween(repo, repo.mbFirst, repo.remote)]

\* variant: without a merge-base the whole of each history is counted
analyzeRemoteStatusCountAll(repo, status) ==
    IF repo.headState # "branch" THEN status
    ELSE IF repo.remote = 0 THEN status
    ELSE IF repo.local = repo.remote THEN status
    ELSE IF ~repo.objectsOk THEN status
    ELSE [status EXCEPT
            !.UnpushedCommits = countCommitsBetween(repo, repo.mbFirst, repo.local),
            !.UnpulledCommits = countCommitsBetween(repo, repo.mbFirst, repo.remote)]

analyzeRemoteStatus(repo, status) ==
    IF repo.headState # "branch" THEN status
    ELSE IF repo.remote = 0 THEN status
    ELSE IF repo.local = repo.remote THEN status
    ELSE IF ~repo.objectsOk THEN status
    ELSE IF repo.mbFirst = 0 THEN status
    ELSE [status EXCEPT
            !.UnpushedCommits = countCommitsBetween(repo, repo.mbFirst, repo.local),
            !.UnpulledCommits = countCommitsBetween(repo, repo.mbFirst, repo.remote)]

analyzeRecentCommits(repo, status) ==
    IF ~LogFromHeadOk(repo) THEN status
    ELSE LET log == Log(repo, repo.local)
             n == IF Len(log) < RecentLimit THEN Len(log) ELSE RecentLimit
         IN [status EXCEPT !.RecentCommits =
                [i \in 1..n |-> [Hash |-> log[i], Timestamp |-> repo.when[log[i]]]]]

analyzeLinesChanged(repo, status) ==
    IF ~LogFromHeadOk(repo) THEN status
    ELSE LET since == Now - LinesWindow
             log == SelectSeq(Log(repo, repo.local),
                              LAMBDA c : ~(repo.when[c] < since))
             counted == IF repo.statsOk THEN Len(log) ELSE 0
             added == counted * repo.added
             removed == counted * repo.removed
         IN IF added > 0 \/ removed > 0
            THEN [status EXCEPT !.LinesChanged =
                    <<[Added |-> added, Removed |-> removed, Period |-> LinesWindow]>>]
            ELSE status

\* the phases Analyze runs after a successful open, in order
PhasesAfterOpen(detail) ==
    <<"branch", "worktree_status", "last_commit", "remote_status">>
    \o (IF detail THEN <<"recent_commits", "lines_changed">> ELSE <<>>)

\* one phase of Analyze applied to the status under construction
RunPhase(phase, repo, status) ==
    CASE phase = "branch"          -> analyzeBranch(repo, status)
      [] phase = "worktree_status" -> analyzeWorktree(repo, status)
      [] phase = "last_commit"     -> analyzeLastCommit(repo, status)
      [] phase = "remote_status"   -> analyzeRemoteStatus(repo, status)
      [] phase = "recent_commits"  -> analyzeRecentCommits(repo, status)
      [] phase = "lines_changed"   -> analyzeLinesChanged(repo, status)

RECURSIVE RunPhases(_, _, _)
RunPhases(phases, repo, status) ==
    IF phases = <<>> THEN status
    ELSE RunPhases(Tail(phases), repo, RunPhase(Head(phases), repo, status))

\* variant: a repository is a ghost from the threshold on
classifyGhostInclusive(status, threshold) ==
    [status EXCEPT !.IsGhost = (Since(status.LastCommitTime) >= threshold)]

\* status.IsGhost = time.Since(status.LastCommitTime) > a.ghostThreshold
classifyGhost(status, threshold) ==
    [status EXCEPT !.IsGhost = (Since(status.LastCommitTime) > threshold)]

\* Analyzer.Analyze: (status, err); a sequence of length 0 is nil
Analyze(repo, path, detail, threshold) ==
    IF ~repo.openOk
    THEN [status |-> <<>>, err |-> <<repo.openErr>>]
    ELSE [status |-> <<classifyGhost(
                          RunPhases(PhasesAfterOpen(detail), repo, NewRepoStatus(path)),
                          threshold)>>,
          err |-> <<>>]

\* the comparison SortByLastActive hands to sort.Slice
LastActiveLess(a, b) == a.LastCommitTime > b.LastCommitTime

\* sort.Slice on a short slice: insertion sort, each element moving left
\* while less(it, left neighbour)
RECURSIVE InsertLeft(_, _)
InsertLeft(sorted, x) ==
    IF sorted # <<>> /\ LastActiveLess(x, sorted[Len(sorted)])
    THEN Append(InsertLeft(SubSeq(sorted, 1, Len(sorted) - 1), x), sorted[Len(sorted)])
    ELSE Append(sorted, x)

RECURSIVE InsertionSort(_, _)
InsertionSort(done, todo) ==
    IF todo = <<>> THEN done
    ELSE InsertionSort(InsertLeft(done, Head(todo)), Tail(todo))

SortByLastActive(reposList) == InsertionSort(<<>>, reposList)


\* ------------------------------------------------------------ repositories
\* the ghost threshold a scan runs with unless configured: 6 * 30 days
DefaultGhostThreshold == 180

\* a history of n commits without a merge
LinearGraph(n) == [c \in 1..n |-> IF c = 1 THEN <<>> ELSE <<c - 1>>]

\* author times of a history of n commits whose newest is made at tip
CommitTimes(n, tip) == [c \in 1..n |-> tip - (n - c)]

\* the message of git.ErrRepositoryNotExists
ErrRepositoryNotExists == "repository does not exist"

\* a path at which PlainOpen fails (removed, or never a repository)
UnopenableRepo(msg) ==
    [openOk |-> FALSE, openErr |-> msg, headState |-> "unresolved",
     branch |-> "", parents |-> <<>>, when |-> <<>>, local |-> 0, remote |-> 0,
     mbFirst |-> 0, objectsOk |-> FALSE, probeOk |-> FALSE, changed |-> 0,
     statsOk |-> FALSE, added |-> 0, removed |-> 0]

\* a repository that opens
OpenRepo(headState, parents, tip, local, remote, mbFirst, objectsOk, probeOk, changed, statsOk) ==
    [openOk |-> TRUE, openErr |-> "", headState |-> headState,
     branch |-> "main", parents |-> parents,
     when |-> CommitTimes(Len(parents), tip), local |-> local, remote |-> remote,
     mbFirst |-> mbFirst, objectsOk |-> objectsOk, probeOk |-> probeOk,
     changed |-> changed, statsOk |-> statsOk, added |-> 1, removed |-> 0]

\* the repositories the pool is run over: two local-only commits on top of
\* origin/main; fully synced and clean; removed before analysis
RepoAhead ==
    OpenRepo("branch", << <<>>, <<1>>, <<2>> >>, Now - 1, 3, 1, 1, TRUE, TRUE, 1, TRUE)
RepoSynced ==
    OpenRepo("branch", << <<>> >>, Now - 10, 1, 1, 1, TRUE, TRUE, 0, TRUE)
RepoRemoved == UnopenableRepo(ErrRepositoryNotExists)
PoolRepos == {RepoAhead, RepoSynced, RepoRemoved}

\* ------------------------------------------------------------- tracing
\* a context that carries no span
NoSpan == <<>>

\* tracing.Tracer().Start(ctx, name): the new span is linked to the span
\* carried by ctx; key tells the spans of different repositories apart
\* and starts now; its end time stays zero until it is ended
StartSpan(parent, name, key) ==
    [name |-> name, id |-> <<name, key>>, parent |-> parent, start |-> clock,
     end |-> 0]

\* span.End(): the span gets its end time and goes to the span processor
EndSpan(sp) == [sp EXCEPT !.end = clock]

\* the spans one Analyze call ends: the analyze span it started on entry,
\* and one span per phase run, started from the ctx analyze returned. The
\* call is one step of its worker: the time it took is put on its first
\* phase, the later phases start and end at the time the call returns
AnalyzeSpans(repo, detail, analyzeSpan) ==
    LET phases == <<"plain_open">>
                  \o (IF repo.openOk THEN PhasesAfterOpen(detail) ELSE <<>>)
    IN {EndSpan(analyzeSpan)}
       \cup {EndSpan([StartSpan(analyzeSpan.id, phases[i], analyzeSpan.id[2])
                        EXCEPT !.start = IF i = 1 THEN analyzeSpan.start ELSE clock])
                : i \in 1..Len(phases)}

\* the span with this id among the spans not ended yet
OpenSpan(id) == CHOOSE sp \in openSpans : sp.id = id

\* ------------------------------------------------------------- scanner.go
DefaultWorkerCount == 4
DefaultMaxDepth == 3
waterfallWidth == 50

\* variant: the configuration is taken as given
NewScannerAsConfigured(cfg) == cfg

\* NewScanner: the defaults replace what is not positive
NewScanner(cfg) ==
    [cfg EXCEPT
        !.WorkerCount = (IF @ <= 0 THEN DefaultWorkerCount ELSE @),
        !.MaxDepth = (IF @ <= 0 THEN DefaultMaxDepth ELSE @),
        !.GhostThreshold = (IF @ <= 0 THEN DefaultGhostThreshold ELSE @)]

\* t.Format("2006-01-02"): times are whole days, a day is its own date
FormatDate(t) == t

\* the entries of commits made on the date today
RECURSIVE CountOnDate(_, _)
CountOnDate(commits, today) ==
    IF commits = <<>> THEN 0
    ELSE (IF FormatDate(Head(commits).Timestamp) = today THEN 1 ELSE 0)
         + CountOnDate(Tail(commits), today)

RECURSIVE TallyToday(_, _)
TallyToday(sts, today) ==
    IF sts = <<>> THEN 0
    ELSE CountOnDate(Head(sts).RecentCommits, today) + TallyToday(Tail(sts), today)

\* Scanner.tallyDailyCommits: a map with a key for today once a commit of
\* today has been seen (the empty function is the empty map)
tallyDailyCommits(sts) ==
    LET today == FormatDate(Now)
        n == TallyToday(sts, today)
    IN IF n = 0 THEN <<>> ELSE (today :> n)

ScanIdle ==
    /\ rawConfig = [WorkerCount |-> 0, MaxDepth |-> 0, DetailMode |-> FALSE,
                    GhostThreshold |-> 0]
    /\ config = NewScanner(rawConfig)
    /\ found = <<>>
    /\ scanResult = <<>>
    /\ scanErr = <<>>

\* ------------------------------------------------------------- tracing.go
\* the value of expMu when nobody holds the mutex, and the reader's name
Unlocked == -1
Reader == 0

\* the goroutines that end spans, and the spans of the k-th ExportSpans call
\* of goroutine g: two spans in its first call, one in each later call
Exporters == 1..MaxWorkers
Batch(g, k) == IF k = 1 THEN << <<g, k, 1>>, <<g, k, 2>> >> ELSE << <<g, k, 1>> >>

\* what a user of the returned slice writes over an element of it
Overwritten == <<0, 0, 0>>

\* &CollectingExporter{}: no span, mutex free; no goroutine exports
ExportEntry(who) ==
    /\ expMu = Unlocked
    /\ expSpans = <<>>
    /\ epc = [g \in who |-> "idle"]
    /\ ecalls = [g \in who |-> 0]
    /\ elocal = [g \in who |-> <<>>]
    /\ exportedSet = {}
    /\ rpc = "idle"
    /\ snapArr = "none"
    /\ snapshot = <<>>

ExportIdle == ExportEntry({})

\* main is not running: no --time flag, no collector; the clock stands.
\* findRepos is not walking
MainIdle ==
    /\ showTimings = FALSE
    /\ exporter = "nil"
    /\ clock = 1
    /\ dirs = {}
    /\ walkStack = <<>>
    /\ walkRepos = <<>>
    /\ walked = {}
    /\ wkPc = "idle"

\* -------------------------------------------------------------- render.go
\* s.EndTime().Sub(s.StartTime())
SpanDur(sp) == sp.end - sp.start

\* the analyzeInfo parseSpans keeps of an analyze span
AnalyzeInfo(sp) ==
    [repo |-> sp.repo, start |-> sp.start, end |-> sp.end, dur |-> SpanDur(sp),
     spanID |-> sp.id]

\* the childSpan parseSpans keeps of any other span
ChildSpan(sp) ==
    [name |-> sp.name, start |-> sp.start, end |-> sp.end, dur |-> SpanDur(sp),
     spanID |-> sp.id]

\* sort.Slice(p.analyzes, start.Before) on a short slice: insertion sort
RECURSIVE InsertByStart(_, _)
InsertByStart(sorted, x) ==
    IF sorted # <<>> /\ x.start < sorted[Len(sorted)].start
    THEN Append(InsertByStart(SubSeq(sorted, 1, Len(sorted) - 1), x),
                sorted[Len(sorted)])
    ELSE Append(sorted, x)

RECURSIVE SortByStart(_, _)
SortByStart(done, todo) ==
    IF todo = <<>> THEN done
    ELSE SortByStart(InsertByStart(done, Head(todo)), Tail(todo))

\* the loop of parseSpans over the spans, p being the parsedSpans so far
RECURSIVE parseLoop(_, _)
parseLoop(p, spans) ==
    IF spans = <<>> THEN p
    ELSE LET sp == Head(spans)
             p1 == CASE sp.name = "find_repos" ->
                          [p EXCEPT !.findReposDur = SpanDur(sp)]
                     [] sp.name = "process" ->
                          [p EXCEPT !.processDur = SpanDur(sp),
                                    !.processStart = sp.start]
                     [] sp.name = "analyze" ->
                          [p EXCEPT !.analyzes = Append(@, AnalyzeInfo(sp))]
                     [] OTHER ->
                          IF sp.parent = 0 THEN p
                          ELSE [p EXCEPT !.children =
                                  [q \in DOMAIN @ \cup {sp.parent} |->
                                     IF q = sp.parent
                                     THEN Append(IF q \in DOMAIN @ THEN @[q]
                                                 ELSE <<>>, ChildSpan(sp))
                                     ELSE @[q]]]
         IN parseLoop(p1, Tail(spans))

parseSpans(spans) ==
    LET p == parseLoop([findReposDur |-> 0, processDur |-> 0, processStart |-> 0,
                        analyzes |-> <<>>, children |-> <<>>], spans)
    IN [p EXCEPT !.analyzes = SortByStart(<<>>, @)]

\* the loop of RenderTimings over p.analyzes from index i on
RECURSIVE timingLoop(_, _, _)
timingLoop(t, analyzes, i) ==
    IF i > Len(analyzes) THEN t
    ELSE LET a == analyzes[i]
             t1 == [t EXCEPT !.sum = @ + a.dur]
             t2 == IF a.dur < t1.minDur THEN [t1 EXCEPT !.minDur = a.dur] ELSE t1
             t3 == IF a.dur > t2.maxDur
                   THEN [t2 EXCEPT !.maxDur = a.dur, !.slowestIdx = i]
                   ELSE t2
         IN timingLoop(t3, analyzes, i + 1)

\* variant: minDur starts from the zero Duration like maxDur
timingStatsMinFromZero(p) ==
    IF Len(p.analyzes) = 0 THEN <<>>
    ELSE LET t == timingLoop([minDur |-> 0, maxDur |-> 0, sum |-> 0,
                              slowestIdx |-> 1], p.analyzes, 1)
         IN <<[min |-> t.minDur, avg |-> t.sum \div Len(p.analyzes),
               max |-> t.maxDur, slowestIdx |-> t.slowestIdx]>>

\* RenderTimings after parseSpans: nothing per repository without analyze
\* spans, else min, avg and max and the index of the slowest (from 1)
timingStats(p) ==
    IF Len(p.analyzes) = 0 THEN <<>>
    ELSE LET t == timingLoop([minDur |-> p.analyzes[1].dur, maxDur |-> 0,
                              sum |-> 0, slowestIdx |-> 1], p.analyzes, 1)
         IN <<[min |-> t.minDur, avg |-> t.sum \div Len(p.analyzes),
               max |-> t.maxDur, slowestIdx |-> t.slowestIdx]>>

\* variant: the bar is not cut at the right end of the axis
renderWaterfallUncut(p) ==
    IF Len(p.analyzes) = 0 \/ p.processDur = 0 THEN <<>>
    ELSE [i \in 1..Len(p.analyzes) |->
            LET a == p.analyzes[i]
                int(x) == IF x >= 0 THEN x \div p.processDur
                          ELSE -((-x) \div p.processDur)
                startCol == int((a.start - p.processStart) * waterfallWidth)
                barLen == int(a.dur * waterfallWidth)
            IN [startCol |-> IF startCol < 0 THEN 0 ELSE startCol,
                barLen |-> IF barLen < 1 THEN 1 ELSE barLen]]

\* renderWaterfall: nothing without analyze spans or with a zero process
\* duration; else for each of p.analyzes the column its bar starts at and
\* the length of the bar. int(float64(x) / float64(totalDur) * 50) is the
\* quotient x * 50 / totalDur cut toward zero
renderWaterfall(p) ==
    IF Len(p.analyzes) = 0 \/ p.processDur = 0 THEN <<>>
    ELSE [i \in 1..Len(p.analyzes) |->
            LET a == p.analyzes[i]
                int(x) == IF x >= 0 THEN x \div p.processDur
                          ELSE -((-x) \div p.processDur)
                startCol == int((a.start - p.processStart) * waterfallWidth)
                barLen == int(a.dur * waterfallWidth)
                atLeastOne == IF barLen < 1 THEN 1 ELSE barLen
                cut == IF startCol + atLeastOne > waterfallWidth
                       THEN waterfallWidth - startCol
                       ELSE atLeastOne
            IN [startCol |-> IF startCol < 0 THEN 0 ELSE startCol,
                barLen |-> cut]]

\* variant: the children are printed without their own children
renderChildrenFlat(p, parentID) ==
    IF parentID \notin DOMAIN p.children THEN <<>>
    ELSE LET children == SortByStart(<<>>, p.children[parentID])
         IN [i \in 1..Len(children) |-> children[i].spanID]

\* renderChildren: the children of parentID sorted by start time, each
\* printed and followed by its own children (the span ids in print order)
RECURSIVE renderChildren(_, _)
renderChildren(p, parentID) ==
    IF parentID \notin DOMAIN p.children THEN <<>>
    ELSE LET children == SortByStart(<<>>, p.children[parentID])
             printed[i \in 0..Len(children)] ==
                IF i = 0 THEN <<>>
                ELSE printed[i - 1] \o <<children[i].spanID>>
                        \o renderChildren(p, children[i].spanID)
         IN printed[Len(children)]

\* renderSpanTree: nothing when the slowest analysis took no time, else the
\* breakdown below its analyze span
renderSpanTree(p, slowestIdx) ==
    IF p.analyzes[slowestIdx].dur = 0 THEN <<>>
    ELSE renderChildren(p, p.analyzes[slowestIdx].spanID)

TimingIdle ==
    /\ spanLog = <<>>
    /\ tPc = "idle"
    /\ parsed = <<>>
    /\ timings = <<>>
    /\ waterfall = <<>>
    /\ tree = <<>>

\* ---------------------------------------------------------------- pool.go
Workers == 1..workerCount
Paths == Range(repoPaths)

\* variant: the error branch also publishes a status
WorkerResultBoth(path, status, err) ==
    IF err # <<>>
    THEN [status |-> <<NewRepoStatus(path)>>,
          err |-> <<[Path |-> path, Message |-> err[1]]>>]
    ELSE [status |-> status, err |-> <<>>]

\* result{err: &ScanError{Path: path, Message: err.Error()}} or
\* result{status: status}
WorkerResult(path, status, err) ==
    IF err # <<>>
    THEN [status |-> <<>>, err |-> <<[Path |-> path, Message |-> err[1]]>>]
    ELSE [status |-> status, err |-> <<>>]

\* the state at entry of Process once the workers have been started
ProcessEntry ==
    /\ jobs = <<>>
    /\ jobsClosed = FALSE
    /\ results = <<>>
    /\ resultsClosed = FALSE
    /\ wg = (IF workerCount > 0 THEN workerCount ELSE 0)
    /\ wpc = [w \in Workers |-> "recv"]
    /\ wpath = [w \in Workers |-> 0]
    /\ mainPc = "enqueue"
    /\ next = 1
    /\ statuses = <<>>
    /\ errors = <<>>
    /\ claimedBy = [p \in Paths |-> {}]
    /\ analyzeCalls = [p \in Paths |-> 0]

AnalyzeIdle ==
    /\ aRepo = RepoRemoved
    /\ aPc = "idle"
    /\ aStatus = <<>>
    /\ aErr = <<>>
    /\ aPhases = <<>>
    /\ aSpans = <<>>

PoolInit ==
    /\ workerCount \in 0..MaxWorkers
    /\ detailMode \in BOOLEAN
    /\ ghostThreshold = DefaultGhostThreshold
    /\ tracingOn = FALSE
    /\ ctxSpan = NoSpan
    /\ trace = {}
    /\ openSpans = {}
    /\ \E n \in 0..MaxPaths :
          /\ repoPaths = [i \in 1..n |-> i]
          /\ repos \in [1..n -> PoolRepos]
    /\ ctxDone = FALSE
    /\ rerun = FALSE
    /\ prevStatuses = <<>>
    /\ ProcessEntry

\* for _, path := range repoPaths { jobs <- path }
Enqueue ==
    /\ mainPc = "enqueue"
    /\ next <= Len(repoPaths)
    /\ ~jobsClosed
    /\ Len(jobs) < Len(repoPaths)
    /\ jobs' = Append(jobs, repoPaths[next])
    /\ next' = next + 1
    /\ UNCHANGED <<workerCount, detailMode, ghostThreshold, tracingOn, ctxSpan, trace, openSpans,
                   repoPaths, repos, jobsClosed, results,
                   resultsClosed, wg, wpc, wpath, mainPc, statuses, errors,
                   ctxDone, claimedBy, analyzeCalls, rerun, prevStatuses>>
    /\ UNCHANGED outsidePool

\* close(jobs), then the goroutine waiting on wg is started
CloseJobs ==
    /\ mainPc = "enqueue"
    /\ next > Len(repoPaths)
    /\ jobsClosed' = TRUE
    /\ mainPc' = "collect"
    /\ UNCHANGED <<workerCount, detailMode, ghostThreshold, tracingOn, ctxSpan, trace, openSpans,
                   repoPaths, repos, jobs, results,
                   resultsClosed, wg, wpc, wpath, next, statuses, errors,
                   ctxDone, claimedBy, analyzeCalls, rerun, prevStatuses>>
    /\ UNCHANGED outsidePool

\* for path := range jobs: a worker receives the next path
WorkerTake(w) ==
    /\ wpc[w] = "recv"
    /\ jobs # <<>>
    /\ wpath' = [wpath EXCEPT ![w] = Head(jobs)]
    /\ jobs' = Tail(jobs)
    /\ wpc' = [wpc EXCEPT ![w] = "analyze"]
    /\ claimedBy' = [claimedBy EXCEPT ![Head(jobs)] = @ \cup {w}]
    \* Analyze is entered: ctx, span := Start(ctx, "analyze", ...)
    /\ openSpans' = (IF tracingOn
                     THEN openSpans \cup {StartSpan(ctxSpan, "analyze", Head(jobs))}
                     ELSE openSpans)
    /\ UNCHANGED <<workerCount, detailMode, ghostThreshold, tracingOn, ctxSpan, trace,
                   repoPaths, repos, jobsClosed, results,
                   resultsClosed, wg, mainPc, next, statuses, errors, ctxDone,
                   analyzeCalls, rerun, prevStatuses>>
    /\ UNCHANGED outsidePool

\* variant: a worker returns from its goroutine when Analyze fails
WorkerAnalyzeStopOnError(w) ==
    /\ wpc[w] = "analyze"
    /\ ~resultsClosed
    /\ Len(results) < Len(repoPaths)
    /\ LET path == wpath[w]
           r == Analyze(repos[path], path, detailMode, ghostThreshold)
       IN /\ results' = Append(results, WorkerResult(path, r.status, r.err))
          /\ IF r.err # <<>>
             THEN /\ wpc' = [wpc EXCEPT ![w] = "done"]
                  /\ wg' = wg - 1
             ELSE /\ wpc' = [wpc EXCEPT ![w] = "recv"]
                  /\ UNCHANGED wg
    /\ trace' = (IF tracingOn
                 THEN trace \cup AnalyzeSpans(repos[wpath[w]], detailMode,
                                              OpenSpan(<<"analyze", wpath[w]>>))
                 ELSE trace)
    /\ openSpans' = {sp \in openSpans : sp.id # <<"analyze", wpath[w]>>}
    /\ analyzeCalls' = [analyzeCalls EXCEPT ![wpath[w]] = @ + 1]
    /\ wpath' = [wpath EXCEPT ![w] = 0]
    /\ UNCHANGED <<workerCount, detailMode, ghostThreshold, tracingOn, ctxSpan,
                   repoPaths, repos, jobs, jobsClosed,
                   resultsClosed, mainPc, next, statuses, errors, ctxDone,
                   claimedBy, rerun, prevStatuses>>
    /\ UNCHANGED outsidePool

\* variant: the results channel has room for one outcome less
WorkerAnalyzeShortBuffer(w) ==
    /\ wpc[w] = "analyze"
    /\ ~resultsClosed
    /\ Len(results) < Len(repoPaths) - 1
    /\ LET path == wpath[w]
           r == Analyze(repos[path], path, detailMode, ghostThreshold)
       IN results' = Append(results, WorkerResult(path, r.status, r.err))
    /\ trace' = (IF tracingOn
                 THEN trace \cup AnalyzeSpans(repos[wpath[w]], detailMode,
                                              OpenSpan(<<"analyze", wpath[w]>>))
                 ELSE trace)
    /\ openSpans' = {sp \in openSpans : sp.id # <<"analyze", wpath[w]>>}
    /\ analyzeCalls' = [analyzeCalls EXCEPT ![wpath[w]] = @ + 1]
    /\ wpc' = [wpc EXCEPT ![w] = "recv"]
    /\ wpath' = [wpath EXCEPT ![w] = 0]
    /\ UNCHANGED <<workerCount, detailMode, ghostThreshold, tracingOn, ctxSpan,
                   repoPaths, repos, jobs, jobsClosed,
                   resultsClosed, wg, mainPc, next, statuses, errors, ctxDone,
                   claimedBy, rerun, prevStatuses>>
    /\ UNCHANGED outsidePool

\* status, err := analyzer.Analyze(ctx, path); results <- result{...}
WorkerAnalyze(w) ==
    /\ wpc[w] = "analyze"
    /\ ~resultsClosed
    /\ Len(results) < Len(repoPaths)
    /\ LET path == wpath[w]
           r == Analyze(repos[path], path, detailMode, ghostThreshold)
       IN results' = Append(results, WorkerResult(path, r.status, r.err))
    /\ trace' = (IF tracingOn
                 THEN trace \cup AnalyzeSpans(repos[wpath[w]], detailMode,
                                              OpenSpan(<<"analyze", wpath[w]>>))
                 ELSE trace)
    /\ openSpans' = {sp \in openSpans : sp.id # <<"analyze", wpath[w]>>}
    /\ analyzeCalls' = [analyzeCalls EXCEPT ![wpath[w]] = @ + 1]
    /\ wpc' = [wpc EXCEPT ![w] = "recv"]
    /\ wpath' = [wpath EXCEPT ![w] = 0]
    /\ UNCHANGED <<workerCount, detailMode, ghostThreshold, tracingOn, ctxSpan,
                   repoPaths, repos, jobs, jobsClosed,
                   resultsClosed, wg, mainPc, next, statuses, errors, ctxDone,
                   claimedBy, rerun, prevStatuses>>
    /\ UNCHANGED outsidePool

\* range over the closed, drained jobs channel ends; defer wg.Done()
WorkerExit(w) ==
    /\ wpc[w] = "recv"
    /\ jobs = <<>>
    /\ jobsClosed
    /\ wpc' = [wpc EXCEPT ![w] = "done"]
    /\ wg' = wg - 1
    /\ UNCHANGED <<workerCount, detailMode, ghostThreshold, tracingOn, ctxSpan, trace, openSpans,
                   repoPaths, repos, jobs, jobsClosed,
                   results, resultsClosed, wpath, mainPc, next, statuses, errors,
                   ctxDone, claimedBy, analyzeCalls, rerun, prevStatuses>>
    /\ UNCHANGED outsidePool

\* variant: the results channel is closed without waiting for the workers
WaitAndCloseNoWait ==
    /\ mainPc = "collect"
    /\ ~resultsClosed
    /\ resultsClosed' = TRUE
    /\ UNCHANGED <<workerCount, detailMode, ghostThreshold, tracingOn, ctxSpan, trace, openSpans,
                   repoPaths, repos, jobs, jobsClosed,
                   results, wg, wpc, wpath, mainPc, next, statuses, errors,
                   ctxDone, claimedBy, analyzeCalls, rerun, prevStatuses>>
    /\ UNCHANGED outsidePool

\* go func() { wg.Wait(); close(results) }()
WaitAndClose ==
    /\ mainPc = "collect"
    /\ ~resultsClosed
    /\ wg = 0
    /\ resultsClosed' = TRUE
    /\ UNCHANGED <<workerCount, detailMode, ghostThreshold, tracingOn, ctxSpan, trace, openSpans,
                   repoPaths, repos, jobs, jobsClosed,
                   results, wg, wpc, wpath, mainPc, next, statuses, errors,
                   ctxDone, claimedBy, analyzeCalls, rerun, prevStatuses>>
    /\ UNCHANGED outsidePool

\* for r := range results: one received result is filed
Collect ==
    /\ mainPc = "collect"
    /\ results # <<>>
    /\ LET r == Head(results)
       IN /\ statuses' = (IF r.status # <<>> THEN Append(statuses, r.status[1]) ELSE statuses)
          /\ errors' = (IF r.err # <<>> THEN Append(errors, r.err[1]) ELSE errors)
    /\ results' = Tail(results)
    /\ UNCHANGED <<workerCount, detailMode, ghostThreshold, tracingOn, ctxSpan, trace, openSpans,
                   repoPaths, repos, jobs, jobsClosed,
                   resultsClosed, wg, wpc, wpath, mainPc, next, ctxDone,
                   claimedBy, analyzeCalls, rerun, prevStatuses>>
    /\ UNCHANGED outsidePool

\* variant: the collecting loop ends as soon as the results channel is empty
ReturnEarly ==
    /\ mainPc = "collect"
    /\ results = <<>>
    /\ statuses' = SortByLastActive(statuses)
    /\ mainPc' = "returned"
    /\ UNCHANGED <<workerCount, detailMode, ghostThreshold, tracingOn, ctxSpan, trace, openSpans,
                   repoPaths, repos, jobs, jobsClosed,
                   results, resultsClosed, wg, wpc, wpath, next, errors, ctxDone,
                   claimedBy, analyzeCalls, rerun, prevStatuses>>
    /\ UNCHANGED outsidePool

\* the range over results ends; SortByLastActive(statuses); return
Return ==
    /\ mainPc = "collect"
    /\ results = <<>>
    /\ resultsClosed
    /\ statuses' = SortByLastActive(statuses)
    /\ mainPc' = "returned"
    /\ UNCHANGED <<workerCount, detailMode, ghostThreshold, tracingOn, ctxSpan, trace, openSpans,
                   repoPaths, repos, jobs, jobsClosed,
                   results, resultsClosed, wg, wpc, wpath, next, errors, ctxDone,
                   claimedBy, analyzeCalls, rerun, prevStatuses>>
    /\ UNCHANGED outsidePool

\* the caller cancels the context it passed to Process
CancelContext ==
    /\ mainPc # "returned"
    /\ ~ctxDone
    /\ ctxDone' = TRUE
    /\ UNCHANGED <<workerCount, detailMode, ghostThreshold, tracingOn, ctxSpan, trace, openSpans,
                   repoPaths, repos, jobs, jobsClosed,
                   results, resultsClosed, wg, wpc, wpath, mainPc, next, statuses,
                   errors, claimedBy, analyzeCalls, rerun, prevStatuses>>
    /\ UNCHANGED outsidePool

\* the caller runs Process again over the same, unchanged repositories
ProcessAgain ==
    /\ mainPc = "returned"
    /\ ~rerun
    /\ rerun' = TRUE
    /\ prevStatuses' = statuses
    /\ ctxDone' = FALSE
    /\ jobs' = <<>>
    /\ jobsClosed' = FALSE
    /\ results' = <<>>
    /\ resultsClosed' = FALSE
    /\ wg' = (IF workerCount > 0 THEN workerCount ELSE 0)
    /\ wpc' = [w \in Workers |-> "recv"]
    /\ wpath' = [w \in Workers |-> 0]
    /\ mainPc' = "enqueue"
    /\ next' = 1
    /\ statuses' = <<>>
    /\ errors' = <<>>
    /\ claimedBy' = [p \in Paths |-> {}]
    /\ analyzeCalls' = [p \in Paths |-> 0]
    /\ UNCHANGED <<workerCount, detailMode, ghostThreshold, tracingOn, ctxSpan, trace, openSpans,
                   repoPaths, repos>>
    /\ UNCHANGED outsidePool

Init == PoolInit /\ AnalyzeIdle /\ ScanIdle /\ TimingIdle /\ ExportIdle /\ MainIdle

\* one call of Process; the caller may cancel the context at any moment
Next ==
    \/ Enqueue
    \/ CloseJobs
    \/ \E w \in Workers : WorkerTake(w)
    \/ \E w \in Workers : WorkerAnalyze(w)
    \/ \E w \in Workers : WorkerExit(w)
    \/ WaitAndClose
    \/ Collect
    \/ Return
    \/ CancelContext

Spec == Init /\ [][Next]_vars

\* the steps of the goroutine that called Process
ProcessStep == Enqueue \/ CloseJobs \/ Collect \/ Return

\* the steps of the worker goroutine w
WorkerStep(w) ==
    /\ w \in Workers
    /\ (WorkerTake(w) \/ WorkerAnalyze(w) \/ WorkerExit(w))

\* the Go scheduler runs every goroutine that can run, and every Analyze
\* call returns: the caller of Process, the goroutine waiting on wg and each
\* worker take a step they stay able to take
Fairness ==
    /\ WF_vars(ProcessStep)
    /\ WF_vars(WaitAndClose)
    /\ \A w \in 1..MaxWorkers : WF_vars(WorkerStep(w))

\* one call of Process, not in detail mode, over synced repositories of
\* which the last may have been removed: whether Process returns does not
\* depend on what an analysis finds, only on its returning, with a status
\* or with an error
InitLive ==
    /\ Init
    /\ ~detailMode
    /\ \A i \in DOMAIN repos :
          \/ repos[i] = RepoSynced
          \/ i = Len(repos) /\ repos[i] = RepoRemoved

SpecLive == InitLive /\ [][Next]_vars /\ Fairness

\* two calls of Process in a row over the same repositories
NextRerun ==
    \/ Enqueue
    \/ CloseJobs
    \/ \E w \in Workers : WorkerTake(w)
    \/ \E w \in Workers : WorkerAnalyze(w)
    \/ \E w \in Workers : WorkerExit(w)
    \/ WaitAndClose
    \/ Collect
    \/ Return
    \/ ProcessAgain

SpecRerun == Init /\ [][NextRerun]_vars


\* ------------------------------------------------------------ Scanner.Scan
\* the repositories a scan runs over: one more commit today than the
\* recent-commit limit; one commit today and one yesterday; removed
RepoBusy ==
    [OpenRepo("branch", LinearGraph(RecentLimit + 1), Now, RecentLimit + 1, 0, 0,
              TRUE, TRUE, 1, TRUE)
       EXCEPT !.when = [c \in 1..(RecentLimit + 1) |-> Now]]
RepoActive ==
    OpenRepo("branch", LinearGraph(2), Now, 2, 0, 0, TRUE, TRUE, 0, TRUE)
ScanRepos == <<RepoBusy, RepoActive, RepoRemoved>>

\* the repositories under the root path: the walk is unsorted and the paths
\* are numbered in the order it reports them, so one order per selection
RepoSelections(n) ==
    {[i \in 1..n |-> ScanRepos[f[i]]] :
        f \in {g \in [1..n -> 1..Len(ScanRepos)] :
                  \A i \in 1..(n - 1) : g[i] <= g[i + 1]}}

\* the error godirwalk.Walk returns
WalkError == "walk failed"

\* NewScanner(rawConfig) has returned and Scan has not started
ScanReady ==
    /\ config = NewScanner(rawConfig)
    /\ found = <<>>
    /\ scanResult = <<>>
    /\ scanErr = <<>>
    /\ ctxSpan = NoSpan
    /\ trace = {}
    /\ openSpans = {}
    /\ repoPaths = <<>>
    /\ workerCount = 0
    /\ detailMode = FALSE
    /\ ghostThreshold = 0
    /\ ctxDone = FALSE
    /\ rerun = FALSE
    /\ prevStatuses = <<>>
    /\ jobs = <<>>
    /\ jobsClosed = FALSE
    /\ results = <<>>
    /\ resultsClosed = FALSE
    /\ wg = 0
    /\ wpc = <<>>
    /\ wpath = <<>>
    /\ next = 1
    /\ statuses = <<>>
    /\ errors = <<>>
    /\ claimedBy = <<>>
    /\ analyzeCalls = <<>>

ScanInit ==
    /\ rawConfig \in [WorkerCount : 0..MaxWorkers, MaxDepth : {0},
                      DetailMode : BOOLEAN, GhostThreshold : {0}]
    \* the scan is run with --time: main has called tracing.Init(true)
    /\ tracingOn = TRUE
    /\ mainPc = "scan"
    /\ \E n \in 0..MaxPaths : repos \in RepoSelections(n)
    /\ ScanReady

\* NewAnalyzer(...); NewPool(s.config.WorkerCount); pool.Process(ctx,
\* found.repos, analyzer) up to the start of its workers
StartProcess(paths) ==
    /\ detailMode' = config.DetailMode
    /\ ghostThreshold' = config.GhostThreshold
    /\ workerCount' = config.WorkerCount
    /\ repoPaths' = paths
    /\ jobs' = <<>>
    /\ jobsClosed' = FALSE
    /\ results' = <<>>
    /\ resultsClosed' = FALSE
    /\ wg' = (IF config.WorkerCount > 0 THEN config.WorkerCount ELSE 0)
    /\ wpc' = [w \in 1..config.WorkerCount |-> "recv"]
    /\ wpath' = [w \in 1..config.WorkerCount |-> 0]
    /\ mainPc' = "enqueue"
    /\ next' = 1
    /\ statuses' = <<>>
    /\ errors' = <<>>
    /\ claimedBy' = [p \in Range(paths) |-> {}]
    /\ analyzeCalls' = [p \in Range(paths) |-> 0]

\* variant: the error of findRepos is kept and the scan carries on with
\* what was found
ScanFindReposCarryOn ==
    /\ mainPc = "scan"
    /\ \E ok \in BOOLEAN : \E k \in {0, Len(repos)} :
          LET findSpan == StartSpan(ctxSpan, "find_repos", 0)
              paths == [i \in 1..(IF ok THEN Len(repos) ELSE k) |-> i]
          IN /\ found' = [repos |-> paths,
                          err |-> (IF ok THEN <<>> ELSE <<WalkError>>)]
             /\ trace' = (IF tracingOn THEN trace \cup {EndSpan(findSpan)} ELSE trace)
             /\ ctxSpan' = (IF tracingOn THEN findSpan.id ELSE NoSpan)
             /\ openSpans' = (IF tracingOn
                              THEN {StartSpan(findSpan.id, "process", 0)}
                              ELSE {})
             /\ StartProcess(paths)
             /\ scanErr' = (IF ok THEN scanErr ELSE <<WalkError>>)
    /\ UNCHANGED <<tracingOn, repos, ctxDone, rerun, prevStatuses,
                   rawConfig, config, scanResult, analyzeVars, timingVars, exportVars, mainVars,
                   findVars>>

\* ctx, findSpan := Start(ctx, "find_repos"); found, err := s.findRepos();
\* if err != nil { return nil, err }; then the pool is built and started
ScanFindRepos ==
    /\ mainPc = "scan"
    /\ \E ok \in BOOLEAN : \E k \in {0, Len(repos)} :
          LET findSpan == StartSpan(ctxSpan, "find_repos", 0)
              paths == [i \in 1..(IF ok THEN Len(repos) ELSE k) |-> i]
          IN /\ found' = [repos |-> paths,
                          err |-> (IF ok THEN <<>> ELSE <<WalkError>>)]
             /\ trace' = (IF tracingOn THEN trace \cup {EndSpan(findSpan)} ELSE trace)
             /\ IF ok
                THEN /\ ctxSpan' = (IF tracingOn THEN findSpan.id ELSE NoSpan)
                     /\ openSpans' = (IF tracingOn
                                      THEN {StartSpan(findSpan.id, "process", 0)}
                                      ELSE {})
                     /\ StartProcess(paths)
                     /\ UNCHANGED scanErr
                ELSE /\ scanErr' = <<WalkError>>
                     /\ mainPc' = "failed"
                     /\ UNCHANGED <<ctxSpan, openSpans, detailMode, ghostThreshold, workerCount,
                                    repoPaths, jobs, jobsClosed, results,
                                    resultsClosed, wg, wpc, wpath, next, statuses,
                                    errors, claimedBy, analyzeCalls>>
    /\ UNCHANGED <<tracingOn, repos, ctxDone, rerun, prevStatuses,
                   rawConfig, config, scanResult, analyzeVars, timingVars, exportVars, mainVars,
                   findVars>>

\* Process has returned: processSpan.End(); the result is built, with the
\* daily tally in detail mode; return result, nil
ScanReturn ==
    /\ mainPc = "returned"
    /\ trace' = (IF tracingOn
                 THEN trace \cup {EndSpan(OpenSpan(<<"process", 0>>))}
                 ELSE trace)
    /\ openSpans' = {sp \in openSpans : sp.id # <<"process", 0>>}
    /\ scanResult' = <<[Repos |-> statuses,
                        TotalRepos |-> Len(statuses),
                        Errors |-> errors,
                        DailyCommits |-> (IF config.DetailMode
                                          THEN tallyDailyCommits(statuses)
                                          ELSE <<>>)]>>
    /\ mainPc' = "scanned"
    /\ UNCHANGED <<workerCount, detailMode, ghostThreshold, tracingOn, ctxSpan,
                   repoPaths, repos, jobs, jobsClosed, results, resultsClosed, wg,
                   wpc, wpath, next, statuses, errors, ctxDone, claimedBy,
                   analyzeCalls, rerun, prevStatuses>>
    /\ UNCHANGED <<rawConfig, config, found, scanErr, analyzeVars, timingVars, exportVars, mainVars,
                   findVars>>

InitScan == ScanInit /\ AnalyzeIdle /\ TimingIdle /\ ExportIdle /\ MainIdle

NextScan ==
    \/ ScanFindRepos
    \/ Enqueue
    \/ CloseJobs
    \/ \E w \in Workers : WorkerTake(w)
    \/ \E w \in Workers : WorkerAnalyze(w)
    \/ \E w \in Workers : WorkerExit(w)
    \/ WaitAndClose
    \/ Collect
    \/ Return
    \/ ScanReturn

SpecScan == InitScan /\ [][NextScan]_vars


\* ------------------------------------------- Analyzer.Analyze, step by step
\* the ordered parent lists a commit c may have: none, one, or two (a merge)
ParentChoices(c) ==
    {<<>>} \cup {<<p>> : p \in 1..(c - 1)}
           \cup {pq \in (1..(c - 1)) \X (1..(c - 1)) : pq[1] # pq[2]}

\* every commit graph over the commits 1..n (parents are older commits)
RECURSIVE GraphsOf(_)
GraphsOf(n) ==
    IF n = 0 THEN {<<>>}
    ELSE {Append(g, ps) : g \in GraphsOf(n - 1), ps \in ParentChoices(n)}

\* what MergeBase may list first for the two heads: any best common
\* ancestor, 0 when there is none
MergeBaseFirst(parents, local, remote) ==
    LET bases == MergeBases(parents, local, remote)
    IN IF bases = {} THEN {0} ELSE bases

\* outcomes of the dirty probe: the command fails, or prints k entries
ProbeOutcomes ==
    {[ok |-> FALSE, changed |-> 0]} \cup {[ok |-> TRUE, changed |-> k] : k \in 0..MaxChanged}

\* every commit of the graph is reachable from HEAD or from origin/<branch>
AllReachable(parents, local, remote) ==
    (Ancestors(parents, local)
       \cup (IF remote = 0 THEN {} ELSE Ancestors(parents, remote)))
    = 1..Len(parents)

\* repo is a repository on a branch whose objects are readable
IsBranchRepo(repo) ==
    \E n \in 1..MaxCommits : \E g \in GraphsOf(n) :
    \E l \in 1..n : \E r \in 0..n :
       /\ AllReachable(g, l, r)
       /\ \E mb \in (IF r = 0 \/ r = l THEN {0} ELSE MergeBaseFirst(g, l, r)) :
          \E pr \in ProbeOutcomes : \E st \in BOOLEAN :
             repo = OpenRepo("branch", g, Now - 1, l, r, mb, TRUE, pr.ok, pr.changed, st)

\* repo has a detached HEAD: head.Name() is HEAD, and the reference
\* refs/remotes/origin/HEAD may exist
IsDetachedRepo(repo) ==
    \E n \in 1..MaxCommits : \E g \in GraphsOf(n) :
    \E l \in 1..n : \E r \in 0..n :
       /\ AllReachable(g, l, r)
       /\ \E mb \in (IF r = 0 \/ r = l THEN {0} ELSE MergeBaseFirst(g, l, r)) :
          \E pr \in ProbeOutcomes : \E st \in BOOLEAN :
             repo = OpenRepo("detached", g, Now - 1, l, r, mb, TRUE, pr.ok, pr.changed, st)

\* the HEAD of repo does not resolve (no commit yet)
IsUnbornRepo(repo) ==
    \E pr \in ProbeOutcomes :
       repo = OpenRepo("unresolved", <<>>, Now, 0, 0, 0, TRUE, pr.ok, pr.changed, TRUE)

\* the commit objects of repo cannot be read: the references still resolve,
\* nothing of the graph is ever seen
IsUnreadableRepo(repo) ==
    \E hs \in {"branch", "detached"} :
    \E r \in {0, 1, 2} :
    \E pr \in ProbeOutcomes :
       repo = OpenRepo(hs, << <<>>, <<>> >>, Now - 1, 1, r, 0, FALSE, pr.ok, pr.changed, FALSE)

\* repo has a linear history at least as long as the recent-commit limit
IsLongRepo(repo) ==
    \E n \in RecentLimit..MaxLinear : \E r \in {0, 1, n} :
       repo = OpenRepo("branch", LinearGraph(n), Now - 1, n, r,
                       (IF r = 0 \/ r = n THEN 0 ELSE r), TRUE, TRUE, 0, TRUE)

\* days since the only commit of a long-untouched repository
Ages == {29, 30, 31, 40}

\* repo has one commit, made some days ago
IsAgedRepo(repo) ==
    \E d \in Ages :
       repo = OpenRepo("branch", << <<>> >>, Now - d, 1, 1, 0, TRUE, TRUE, 0, TRUE)

\* the ghost thresholds Analyze is run with, in days
GhostThresholds == {30, 40}

\* PlainOpen fails on repo
IsUnopenableRepo(repo) ==
    \E msg \in {ErrRepositoryNotExists, "permission denied"} :
       repo = UnopenableRepo(msg)

\* the path Analyze is called with in SpecAnalyze
aPath == 1

\* the phase after phase, "return" after the last one
NextPhase(phase, detail) ==
    LET order == <<"plain_open">> \o PhasesAfterOpen(detail) \o <<"return">>
        i == CHOOSE k \in 1..Len(order) : order[k] = phase
    IN order[i + 1]

PoolIdle ==
    /\ workerCount = 0
    /\ tracingOn = FALSE
    /\ ctxSpan = NoSpan
    /\ trace = {}
    /\ openSpans = {}
    /\ repoPaths = <<>>
    /\ repos = <<>>
    /\ ctxDone = FALSE
    /\ rerun = FALSE
    /\ prevStatuses = <<>>
    /\ jobs = <<>>
    /\ jobsClosed = FALSE
    /\ results = <<>>
    /\ resultsClosed = FALSE
    /\ wg = 0
    /\ wpc = <<>>
    /\ wpath = <<>>
    /\ mainPc = "idle"
    /\ next = 1
    /\ statuses = <<>>
    /\ errors = <<>>
    /\ claimedBy = <<>>
    /\ analyzeCalls = <<>>

AnalyzeInit ==
    /\ \/ IsBranchRepo(aRepo)
       \/ IsDetachedRepo(aRepo)
       \/ IsUnbornRepo(aRepo)
       \/ IsUnreadableRepo(aRepo)
       \/ IsUnopenableRepo(aRepo)
       \/ IsAgedRepo(aRepo)
       \/ IsLongRepo(aRepo)
    /\ detailMode \in BOOLEAN
    \* the commit graphs are analysed under one threshold, the aged
    \* repositories under two, the empty and the unreadable ones also under
    \* the largest Duration a threshold can be set to
    /\ ghostThreshold \in
          (IF aRepo.openOk /\ ~LogFromHeadOk(aRepo)
           THEN GhostThresholds \cup {MaxDuration}
           ELSE IF IsAgedRepo(aRepo) THEN GhostThresholds ELSE {30})
    /\ (~detailMode => (aRepo.statsOk = aRepo.objectsOk))
    /\ aPc = "plain_open"
    /\ aStatus = <<>>
    /\ aErr = <<>>
    /\ aPhases = <<>>
    /\ aSpans = <<>>

\* variant: the error of PlainOpen is kept but Analyze carries on
APlainOpenCarryOn ==
    /\ aPc = "plain_open"
    /\ aPhases' = Append(aPhases, "plain_open")
    /\ aSpans' = aSpans \o << <<"start", "analyze">>, <<"start", "plain_open">>,
                              <<"end", "plain_open">> >>
    /\ aErr' = (IF aRepo.openOk THEN aErr ELSE <<aRepo.openErr>>)
    /\ aStatus' = <<NewRepoStatus(aPath)>>
    /\ aPc' = NextPhase("plain_open", detailMode)
    /\ UNCHANGED <<aRepo, outsideAnalyze>>

\* variant: span.End() is not deferred but called before the last return
APlainOpenEndLate ==
    /\ aPc = "plain_open"
    /\ aPhases' = Append(aPhases, "plain_open")
    /\ aSpans' = aSpans \o << <<"start", "analyze">>, <<"start", "plain_open">>,
                              <<"end", "plain_open">> >>
    /\ IF ~aRepo.openOk
       THEN /\ aErr' = <<aRepo.openErr>>
            /\ aPc' = "returned"
            /\ UNCHANGED aStatus
       ELSE /\ aStatus' = <<NewRepoStatus(aPath)>>
            /\ aPc' = NextPhase("plain_open", detailMode)
            /\ UNCHANGED aErr
    /\ UNCHANGED <<aRepo, outsideAnalyze>>

\* ctx, span := Start(ctx, "analyze"); defer span.End(); the plain_open span
\* around repo, err := git.PlainOpen(repoPath); if err != nil { return nil, err }
APlainOpen ==
    /\ aPc = "plain_open"
    /\ aPhases' = Append(aPhases, "plain_open")
    /\ aSpans' = aSpans \o << <<"start", "analyze">>, <<"start", "plain_open">>,
                              <<"end", "plain_open">> >>
                        \o (IF aRepo.openOk THEN <<>> ELSE << <<"end", "analyze">> >>)
    /\ IF ~aRepo.openOk
       THEN /\ aErr' = <<aRepo.openErr>>
            /\ aPc' = "returned"
            /\ UNCHANGED aStatus
       ELSE /\ aStatus' = <<NewRepoStatus(aPath)>>
            /\ aPc' = NextPhase("plain_open", detailMode)
            /\ UNCHANGED aErr
    /\ UNCHANGED <<aRepo, outsideAnalyze>>

\* a later phase applied to the status, inside its span:
\* Start(ctx, phase); a.analyzeX(repo, status); xSpan.End()
PhaseStep(phase) ==
    /\ aStatus' = <<RunPhase(phase, aRepo, aStatus[1])>>
    /\ aPhases' = Append(aPhases, phase)
    /\ aSpans' = aSpans \o << <<"start", phase>>, <<"end", phase>> >>
    /\ aPc' = NextPhase(phase, detailMode)
    /\ UNCHANGED <<aRepo, aErr, outsideAnalyze>>

ABranch ==
    /\ aPc = "branch"
    /\ PhaseStep("branch")

AWorktree ==
    /\ aPc = "worktree_status"
    /\ PhaseStep("worktree_status")

ALastCommit ==
    /\ aPc = "last_commit"
    /\ PhaseStep("last_commit")

ARemoteStatus ==
    /\ aPc = "remote_status"
    /\ PhaseStep("remote_status")

\* if a.detailMode { ... }
ARecentCommits ==
    /\ aPc = "recent_commits"
    /\ PhaseStep("recent_commits")

ALinesChanged ==
    /\ aPc = "lines_changed"
    /\ PhaseStep("lines_changed")

\* status.IsGhost = ...; return status, nil; the deferred span.End()
AReturn ==
    /\ aPc = "return"
    /\ aStatus' = <<classifyGhost(aStatus[1], ghostThreshold)>>
    /\ aSpans' = Append(aSpans, <<"end", "analyze">>)
    /\ aPc' = "returned"
    /\ UNCHANGED <<aRepo, aErr, aPhases, outsideAnalyze>>

InitAnalyze ==
    PoolIdle /\ AnalyzeInit /\ ScanIdle /\ TimingIdle /\ ExportIdle /\ MainIdle

NextAnalyze ==
    \/ APlainOpen
    \/ ABranch
    \/ AWorktree
    \/ ALastCommit
    \/ ARemoteStatus
    \/ ARecentCommits
    \/ ALinesChanged
    \/ AReturn

SpecAnalyze == InitAnalyze /\ [][NextAnalyze]_vars

\* the phase-by-phase run and the function Analyze (used by the pool) agree
AnalyzeStepsAgree ==
    aPc = "returned" =>
        [status |-> aStatus, err |-> aErr] = Analyze(aRepo, aPath, detailMode, ghostThreshold)


\* ----------------------------------------------------- cli.RenderTimings
\* the spans a log entry may be: an analyze span, the process span, the
\* find_repos span, or a phase span linked to the span with id parent
\* (0: no valid parent); the id of a span is set from its place in the log
SpanChoices ==
    [name : {"analyze"}, start : 0..1, end : 1..MaxDur, parent : {0}]
    \cup [name : {"process"}, start : {0}, end : {MaxDur}, parent : {0}]
    \cup [name : {"find_repos"}, start : {0}, end : {0}, parent : {0}]
    \cup {c \in [name : {"branch"}, start : 1..2, end : 1..2,
                  parent : 0..MaxSpans] : c.start <= c.end}

\* the span log made of the spans f, in that order
SpanLogOf(f) ==
    [i \in DOMAIN f |->
        [name |-> f[i].name, id |-> i, repo |-> i, parent |-> f[i].parent,
         start |-> f[i].start, end |-> f[i].end]]

\* the log a run may leave: up to MaxSpans ended spans
TimingInit ==
    /\ \E n \in 0..MaxSpans : \E f \in [1..n -> SpanChoices] :
          \* no span is its own parent
          /\ \A i \in 1..n : f[i].parent # i
          /\ spanLog = SpanLogOf(f)
    /\ tPc = "render"
    /\ parsed = <<>>
    /\ timings = <<>>
    /\ waterfall = <<>>
    /\ tree = <<>>
    \* the run had --time: tracing.Init(true) returned a collector
    /\ showTimings = TRUE
    /\ exporter = "collector"
    /\ clock = 1
    /\ dirs = {}
    /\ walkStack = <<>>
    /\ walkRepos = <<>>
    /\ walked = {}
    /\ wkPc = "idle"

\* RenderTimings(exp): nothing without a collector; with one,
\* p := parseSpans(exp.Spans()), then the per-repository figures
RenderTimings ==
    /\ tPc = "render"
    /\ IF exporter = "nil"
       THEN /\ tPc' = "returned"
            /\ UNCHANGED <<parsed, timings, waterfall, tree>>
       ELSE LET p == parseSpans(spanLog)
            IN /\ parsed' = <<p>>
               /\ timings' = timingStats(p)
               /\ waterfall' = (IF Len(p.analyzes) = 0 THEN <<>>
                                ELSE renderWaterfall(p))
               /\ tree' = (IF Len(p.analyzes) = 0 THEN <<>>
                           ELSE renderSpanTree(p, timingStats(p)[1].slowestIdx))
               /\ tPc' = "done"
    /\ UNCHANGED <<spanLog, outsideTimings>>

\* no analyzer has been built: its fields hold what NewAnalyzer would be given
NoAnalyzer ==
    /\ detailMode = FALSE
    /\ ghostThreshold = DefaultGhostThreshold

InitTimings ==
    PoolIdle /\ NoAnalyzer /\ AnalyzeIdle /\ ScanIdle /\ TimingInit /\ ExportIdle

NextTimings == RenderTimings

SpecTimings == InitTimings /\ [][NextTimings]_vars



\* ---------------------------------------------- tracing.CollectingExporter
ExportInit == ExportEntry(Exporters)

\* variant: ExportSpans does not take the mutex
ExportLockNoWait(g) ==
    /\ epc[g] = "idle"
    /\ ecalls[g] < MaxExports
    /\ epc' = [epc EXCEPT ![g] = "locked"]
    /\ UNCHANGED <<expMu, expSpans, ecalls, elocal, exportedSet, rpc, snapArr,
                   snapshot, outsideExport>>

\* ExportSpans: e.mu.Lock()
ExportLock(g) ==
    /\ epc[g] = "idle"
    /\ ecalls[g] < MaxExports
    /\ expMu = Unlocked
    /\ expMu' = g
    /\ epc' = [epc EXCEPT ![g] = "locked"]
    /\ UNCHANGED <<expSpans, ecalls, elocal, exportedSet, rpc, snapArr, snapshot,
                   outsideExport>>

\* e.spans = append(e.spans, spans...): the slice is read
ExportLoad(g) ==
    /\ epc[g] = "locked"
    /\ elocal' = [elocal EXCEPT ![g] = expSpans]
    /\ epc' = [epc EXCEPT ![g] = "loaded"]
    /\ UNCHANGED <<expMu, expSpans, ecalls, exportedSet, rpc, snapArr, snapshot,
                   outsideExport>>

\* e.spans = append(e.spans, spans...): the longer slice is stored
ExportStore(g) ==
    /\ epc[g] = "loaded"
    /\ expSpans' = elocal[g] \o Batch(g, ecalls[g] + 1)
    /\ epc' = [epc EXCEPT ![g] = "stored"]
    /\ UNCHANGED <<expMu, ecalls, elocal, exportedSet, rpc, snapArr, snapshot,
                   outsideExport>>

\* e.mu.Unlock(); return nil
ExportUnlock(g) ==
    /\ epc[g] = "stored"
    /\ expMu' = (IF expMu = g THEN Unlocked ELSE expMu)
    /\ ecalls' = [ecalls EXCEPT ![g] = @ + 1]
    /\ exportedSet' = exportedSet \cup Range(Batch(g, ecalls[g] + 1))
    /\ epc' = [epc EXCEPT ![g] = "idle"]
    /\ UNCHANGED <<expSpans, elocal, rpc, snapArr, snapshot, outsideExport>>

\* Spans: e.mu.Lock()
SpansLock ==
    /\ rpc = "idle"
    /\ expMu = Unlocked
    /\ expMu' = Reader
    /\ rpc' = "locked"
    /\ UNCHANGED <<expSpans, epc, ecalls, elocal, exportedSet, snapArr, snapshot,
                   outsideExport>>

\* return append([]sdktrace.ReadOnlySpan(nil), e.spans...), a slice over a
\* new array; the deferred e.mu.Unlock()
SpansReturn ==
    /\ rpc = "locked"
    /\ snapshot' = expSpans
    /\ snapArr' = "copy"
    /\ expMu' = (IF expMu = Reader THEN Unlocked ELSE expMu)
    /\ rpc' = "returned"
    /\ UNCHANGED <<expSpans, epc, ecalls, elocal, exportedSet, outsideExport>>

\* the caller of Spans writes over the first element of what it was given:
\* the write lands in the array behind that slice
ModifySnapshot ==
    /\ rpc = "returned"
    /\ Len(snapshot) > 0
    /\ snapshot' = [snapshot EXCEPT ![1] = Overwritten]
    /\ expSpans' = (IF snapArr = "copy" THEN expSpans
                    ELSE [expSpans EXCEPT ![1] = Overwritten])
    /\ rpc' = "modified"
    /\ UNCHANGED <<expMu, epc, ecalls, elocal, exportedSet, snapArr, outsideExport>>

InitExport ==
    /\ PoolIdle /\ NoAnalyzer /\ AnalyzeIdle /\ ScanIdle /\ TimingIdle /\ ExportInit
    /\ MainIdle

NextExport ==
    \/ \E g \in Exporters : ExportLock(g)
    \/ \E g \in Exporters : ExportLoad(g)
    \/ \E g \in Exporters : ExportStore(g)
    \/ \E g \in Exporters : ExportUnlock(g)
    \/ SpansLock
    \/ SpansReturn
    \/ ModifySnapshot

SpecExport == InitExport /\ [][NextExport]_vars

\* ------------------------------------------------------ Scanner.findRepos
\* the entries of the directory at path p: godirwalk hands each to the
\* callback with the path osDirname + "/" + name
Children(p) ==
    {q \in dirs : Len(q) = Len(p) + 1 /\ SubSeq(q, 1, Len(p)) = p}

\* the callback of findRepos on the directory at path p, the root path being
\* absolute and clean: what it appends to repos, and whether the walk goes on
\* into the directory
Callback(p) ==
    LET name == IF p = <<>> THEN "root" ELSE p[Len(p)]
        currentDepth == Len(p)
    IN IF name \in {"node_modules", ".Trash", "vendor"}
       THEN [append |-> <<>>, descend |-> FALSE]
       ELSE IF currentDepth > config.MaxDepth
       THEN [append |-> <<>>, descend |-> FALSE]
       ELSE IF name = ".git"
       THEN [append |-> <<SubSeq(p, 1, Len(p) - 1)>>, descend |-> FALSE]
       ELSE [append |-> <<>>, descend |-> TRUE]

\* a root path with up to MaxLevels levels of directories below it: a chain
\* of directories a, a sibling b, and .git directories anywhere in them
FindInit ==
    /\ rawConfig \in [WorkerCount : {0}, MaxDepth : 0..MaxLevels,
                      DetailMode : {FALSE}, GhostThreshold : {0}]
    /\ config = NewScanner(rawConfig)
    /\ found = <<>>
    /\ scanResult = <<>>
    /\ scanErr = <<>>
    /\ LET \* name, name/a, name/a/a, ... down to d levels, with a .git
           \* directory in those at the levels in gits
           at(name, k) == <<name>> \o [i \in 1..(k - 1) |-> "a"]
           chain(name, d, gits) ==
              {at(name, k) : k \in 1..d} \cup {Append(at(name, k), ".git") : k \in gits}
       IN \E rootGit \in SUBSET {<<".git">>} : \E da \in 0..MaxLevels :
            \E ga \in SUBSET (1..da) : \E db \in 0..1 : \E gb \in SUBSET (1..db) :
               dirs = {<<>>} \cup rootGit \cup chain("a", da, ga) \cup chain("b", db, gb)
    /\ walkStack = << <<>> >>
    /\ walkRepos = <<>>
    /\ walked = {}
    /\ wkPc = "walk"
    /\ showTimings = FALSE
    /\ exporter = "nil"
    /\ clock = 1

\* godirwalk.Walk, Unsorted: the callback is run on the next entry; unless it
\* answers SkipThis the entries of that directory come next, in any order
WalkVisit ==
    /\ wkPc = "walk"
    /\ walkStack # <<>>
    /\ LET p == Head(walkStack)
           r == Callback(p)
       IN /\ walkRepos' = walkRepos \o r.append
          /\ walked' = (IF r.descend THEN walked \cup {p} ELSE walked)
          /\ IF r.descend
             THEN \E order \in [1..Cardinality(Children(p)) -> Children(p)] :
                     /\ Range(order) = Children(p)
                     /\ walkStack' = order \o Tail(walkStack)
             ELSE walkStack' = Tail(walkStack)
    /\ UNCHANGED <<dirs, wkPc, showTimings, exporter, clock>>
    /\ UNCHANGED <<poolVars, analyzeVars, scanVars, timingVars, exportVars>>

\* the walk is over: return &findResult{repos: repos, ...}, err
WalkReturn ==
    /\ wkPc = "walk"
    /\ walkStack = <<>>
    /\ found' = [repos |-> walkRepos, err |-> <<>>]
    /\ wkPc' = "done"
    /\ UNCHANGED <<dirs, walkStack, walkRepos, walked, showTimings, exporter, clock>>
    /\ UNCHANGED <<rawConfig, config, scanResult, scanErr>>
    /\ UNCHANGED <<poolVars, analyzeVars, timingVars, exportVars>>

InitFind == PoolIdle /\ NoAnalyzer /\ AnalyzeIdle /\ FindInit /\ TimingIdle /\ ExportIdle

NextFind == WalkVisit \/ WalkReturn

SpecFind == InitFind /\ [][NextFind]_vars

\* ------------------------------------------------------------------- main
\* the collector's log of the ended spans S: the log is in order of End
\* calls; spans ended at the same time are listed by repository and, for one
\* repository, in the order Analyze ends them, between find_repos and process
RECURSIVE LogInOrder(_)
LogInOrder(S) ==
    LET order == <<"find_repos", "plain_open", "branch", "worktree_status",
                   "last_commit", "remote_status", "recent_commits",
                   "lines_changed", "analyze", "process">>
        rank(sp) == (sp.end * (Len(repos) + 1) + sp.id[2]) * Len(order)
                       + (CHOOSE i \in 1..Len(order) : order[i] = sp.name)
    IN IF S = {} THEN <<>>
       ELSE LET first == CHOOSE sp \in S : \A o \in S : rank(sp) <= rank(o)
            IN <<first>> \o LogInOrder(S \ {first})

\* exp.Spans() as parseSpans reads it: span ids are the places in the log,
\* the parent of a root span is the invalid id 0, repo is the attribute
\* the analyze span carries
CollectedSpans(S) ==
    LET log == LogInOrder(S)
        place(id) == IF \E i \in 1..Len(log) : log[i].id = id
                     THEN CHOOSE i \in 1..Len(log) : log[i].id = id
                     ELSE 0
    IN [i \in 1..Len(log) |->
          [name |-> log[i].name, id |-> i, repo |-> log[i].id[2],
           parent |-> place(log[i].parent), start |-> log[i].start,
           end |-> log[i].end]]

\* main is entered with the parsed flags; nothing has run
MainInit ==
    /\ showTimings \in BOOLEAN
    /\ exporter = "nil"
    /\ clock = 1
    /\ dirs = {}
    /\ walkStack = <<>>
    /\ walkRepos = <<>>
    /\ walked = {}
    /\ wkPc = "idle"
    \* main's ScanConfig literal asks for 4 workers, a positive count that
    \* NewScanner keeps; the model runs main with MaxWorkers of them
    /\ rawConfig = [WorkerCount |-> MaxWorkers, MaxDepth |-> DefaultMaxDepth,
                    DetailMode |-> FALSE, GhostThreshold |-> DefaultGhostThreshold]
    /\ tracingOn = FALSE
    /\ mainPc = "main"
    \* under the root path: repositories in use, the last one possibly removed
    /\ \E n \in 0..MaxPaths : \E last \in {RepoActive, RepoRemoved} :
          repos = [i \in 1..n |-> IF i = n THEN last ELSE RepoActive]
    /\ ScanReady

\* variant: Init installs the recording provider whatever the flag says
TracingInitAlways ==
    /\ mainPc = "main"
    /\ tracingOn' = TRUE
    /\ exporter' = "collector"
    /\ mainPc' = "scan"
    /\ UNCHANGED <<workerCount, detailMode, ghostThreshold, ctxSpan, trace,
                   openSpans, repoPaths, repos, jobs, jobsClosed, results,
                   resultsClosed, wg, wpc, wpath, next, statuses, errors,
                   ctxDone, claimedBy, analyzeCalls, rerun, prevStatuses>>
    /\ UNCHANGED <<showTimings, clock, analyzeVars, scanVars, timingVars, exportVars,
                   findVars>>

\* exporter, shutdown := tracing.Init(cliConfig.ShowTimings)
TracingInit ==
    /\ mainPc = "main"
    /\ tracingOn' = showTimings
    /\ exporter' = (IF showTimings THEN "collector" ELSE "nil")
    /\ mainPc' = "scan"
    /\ UNCHANGED <<workerCount, detailMode, ghostThreshold, ctxSpan, trace,
                   openSpans, repoPaths, repos, jobs, jobsClosed, results,
                   resultsClosed, wg, wpc, wpath, next, statuses, errors,
                   ctxDone, claimedBy, analyzeCalls, rerun, prevStatuses>>
    /\ UNCHANGED <<showTimings, clock, analyzeVars, scanVars, timingVars, exportVars,
                   findVars>>

\* pulse.Run returned an error: os.Exit(1)
MainFail ==
    /\ mainPc = "failed"
    /\ mainPc' = "exit"
    /\ UNCHANGED <<workerCount, detailMode, ghostThreshold, tracingOn, ctxSpan,
                   trace, openSpans, repoPaths, repos, jobs, jobsClosed, results,
                   resultsClosed, wg, wpc, wpath, next, statuses, errors,
                   ctxDone, claimedBy, analyzeCalls, rerun, prevStatuses>>
    /\ UNCHANGED outsidePool

\* shutdown(ctx): the tracer provider is shut down and records no more
MainShutdown ==
    /\ mainPc = "scanned"
    /\ tracingOn' = FALSE
    /\ mainPc' = "shutdown"
    /\ UNCHANGED <<workerCount, detailMode, ghostThreshold, ctxSpan,
                   trace, openSpans, repoPaths, repos, jobs, jobsClosed, results,
                   resultsClosed, wg, wpc, wpath, next, statuses, errors,
                   ctxDone, claimedBy, analyzeCalls, rerun, prevStatuses>>
    /\ UNCHANGED outsidePool

\* cli.Render(result, ...); if cliConfig.ShowTimings, RenderTimings(exporter)
\* is entered and exp.Spans() is what it will read
MainRender ==
    /\ mainPc = "shutdown"
    /\ mainPc' = "exit"
    /\ IF showTimings
       THEN /\ tPc' = "render"
            /\ spanLog' = (IF exporter = "nil" THEN <<>> ELSE CollectedSpans(trace))
       ELSE UNCHANGED <<tPc, spanLog>>
    /\ UNCHANGED <<workerCount, detailMode, ghostThreshold, tracingOn, ctxSpan,
                   trace, openSpans, repoPaths, repos, jobs, jobsClosed, results,
                   resultsClosed, wg, wpc, wpath, next, statuses, errors,
                   ctxDone, claimedBy, analyzeCalls, rerun, prevStatuses>>
    /\ UNCHANGED <<parsed, timings, waterfall, tree, analyzeVars, scanVars,
                   exportVars, mainVars,
                   findVars>>

\* time passes; only the recording tracer reads the clock
Tick ==
    /\ tracingOn
    /\ clock < MaxClock
    /\ clock' = clock + 1
    /\ UNCHANGED <<poolVars, analyzeVars, scanVars, timingVars, exportVars,
                   showTimings, exporter, findVars>>

InitMain == MainInit /\ AnalyzeIdle /\ TimingIdle /\ ExportIdle

NextMain ==
    \/ TracingInit
    \/ NextScan
    \/ MainFail
    \/ MainShutdown
    \/ MainRender
    \/ RenderTimings
    \/ Tick

SpecMain == InitMain /\ [][NextMain]_vars

\* ================================================================== claims

\* number of entries of the returned statuses / errors that are about path p
StatusCount(p) == Cardinality({i \in 1..Len(statuses) : statuses[i].Path = p})
ErrorCount(p) == Cardinality({i \in 1..Len(errors) : errors[i].Path = p})

\* every path: never claimed by two workers, never analysed twice, and once
\* Process has returned claimed by one worker, analysed once, with one outcome
EveryPathOnce ==
    /\ \A p \in Paths : Cardinality(claimedBy[p]) <= 1 /\ analyzeCalls[p] <= 1
    /\ mainPc = "returned" =>
          /\ \A p \in Paths :
                /\ Cardinality(claimedBy[p]) = 1
                /\ analyzeCalls[p] = 1
                /\ StatusCount(p) + ErrorCount(p) = 1
          /\ Len(statuses) + Len(errors) = Len(repoPaths)

\* C1 as stated: for any worker count the pool was constructed with, every
\* submitted path is claimed by exactly one worker, analysed exactly once and
\* yields exactly one outcome, so len(statuses) + len(errors) = N on return.
C1_AnyWorkerCount == EveryPathOnce

\* C1, amended: the same for every pool constructed with at least one worker.
C1_ExactlyOneOutcome == workerCount >= 1 => EveryPathOnce

\* Two workers shared two paths; one path gave a status, the other an error.
C1_Witness ==
    /\ mainPc = "returned"
    /\ workerCount = 2
    /\ Len(repoPaths) = 2
    /\ claimedBy[1] # claimedBy[2]
    /\ Len(statuses) = 1
    /\ Len(errors) = 1

\* C2: an Analyze failure never stops a worker or the pool. A worker leaves
\* its loop only when the jobs channel is closed and drained, and once some
\* path has failed, Process returns that failure as a ScanError for the path
\* together with one outcome for every other submitted path.
C2_FailureIsolated ==
    /\ \A w \in Workers : wpc[w] = "done" => (jobsClosed /\ jobs = <<>>)
    /\ \A q \in Paths :
          (mainPc = "returned" /\ analyzeCalls[q] > 0 /\ ~repos[q].openOk) =>
             /\ \E i \in 1..Len(errors) :
                   errors[i] = [Path |-> q, Message |-> repos[q].openErr]
             /\ \A p \in Paths \ {q} :
                   /\ analyzeCalls[p] = 1
                   /\ repos[p].openOk => StatusCount(p) = 1
                   /\ ~repos[p].openOk => ErrorCount(p) = 1

\* The single worker failed on the first path and still analysed the second.
C2_Witness ==
    /\ mainPc = "returned"
    /\ workerCount = 1
    /\ Len(repoPaths) = 2
    /\ ~repos[1].openOk
    /\ repos[2].openOk
    /\ ErrorCount(1) = 1
    /\ StatusCount(2) = 1

\* C3 as stated: once the context is cancelled, no worker claims a further
\* path (each only finishes the path it has in flight).
C3_NoClaimAfterCancel ==
    [][ctxDone => \A p \in Paths : claimedBy'[p] = claimedBy[p]]_vars

\* C4 as stated: the returned status list is ordered oldest-first: no status
\* has a later LastCommitTime than the one that follows it.
C4_OldestFirst ==
    mainPc = "returned" =>
       \A i \in 1..(Len(statuses) - 1) :
          statuses[i].LastCommitTime <= statuses[i + 1].LastCommitTime

\* C5 as stated: a second run over the same unchanged repositories returns
\* the statuses in the same order as the first, ties included.
C5_SameOrderEveryRun ==
    (mainPc = "returned" /\ rerun) => statuses = prevStatuses

\* Analyze has returned a status for a repository whose HEAD is on a branch,
\* whose origin reference resolves to another commit, and for which a
\* merge-base was found
AheadBehindComputed ==
    /\ aPc = "returned"
    /\ aRepo.openOk
    /\ aRepo.headState = "branch"
    /\ aRepo.remote # 0
    /\ aRepo.local # aRepo.remote
    /\ aRepo.objectsOk
    /\ aRepo.mbFirst # 0

\* the commits reachable from head but not from base
ReachableBeyond(repo, head, base) ==
    Ancestors(repo.parents, head) \ Ancestors(repo.parents, base)

\* C6 as stated: for any commit graph, merges included, UnpushedCommits is
\* the number of commits reachable from the local head but not from the
\* merge-base, and UnpulledCommits the same from the remote-tracking commit.
C6_CountsAreReachability ==
    AheadBehindComputed =>
       /\ aStatus[1].UnpushedCommits =
             Cardinality(ReachableBeyond(aRepo, aRepo.local, aRepo.mbFirst))
       /\ aStatus[1].UnpulledCommits =
             Cardinality(ReachableBeyond(aRepo, aRepo.remote, aRepo.mbFirst))

\* length of the single-parent chain from head down to base; -1 when the
\* history between them is not such a chain
RECURSIVE LinearDistance(_, _, _)
LinearDistance(parents, head, base) ==
    IF head = base THEN 0
    ELSE IF Len(parents[head]) # 1 THEN -1
    ELSE LET d == LinearDistance(parents, parents[head][1], base)
         IN IF d = -1 THEN -1 ELSE d + 1

\* C7: when the history from the merge-base to the local head is a linear
\* chain of k commits and the one to the remote-tracking commit a linear
\* chain of m commits, Analyze reports UnpushedCommits = k and
\* UnpulledCommits = m; two local-only commits with nothing missing give 2
\* and 0, and a fully synced repository gives 0 and 0.
C7_LinearCounts ==
    /\ AheadBehindComputed =>
          LET k == LinearDistance(aRepo.parents, aRepo.local, aRepo.mbFirst)
              m == LinearDistance(aRepo.parents, aRepo.remote, aRepo.mbFirst)
          IN (k >= 0 /\ m >= 0) =>
                /\ aStatus[1].UnpushedCommits = k
                /\ aStatus[1].UnpulledCommits = m
    /\ (aPc = "returned" /\ aRepo.openOk /\ aRepo.headState = "branch"
          /\ aRepo.objectsOk /\ aRepo.local = aRepo.remote) =>
          /\ aStatus[1].UnpushedCommits = 0
          /\ aStatus[1].UnpulledCommits = 0

\* Two commits on top of the merge-base locally, one on the remote side.
C7_Witness ==
    /\ AheadBehindComputed
    /\ LinearDistance(aRepo.parents, aRepo.local, aRepo.mbFirst) = 2
    /\ LinearDistance(aRepo.parents, aRepo.remote, aRepo.mbFirst) = 1
    /\ aStatus[1].UnpushedCommits = 2
    /\ aStatus[1].UnpulledCommits = 1

\* C8: when HEAD does not resolve to a branch (unresolved or detached), or
\* origin/<branch> does not exist, or both references name the same commit,
\* Analyze returns a status whose UnpushedCommits and UnpulledCommits are 0.
C8_UnresolvedOrEqualIsZero ==
    (/\ aPc = "returned"
     /\ aRepo.openOk
     /\ \/ aRepo.headState # "branch"
        \/ aRepo.remote = 0
        \/ aRepo.local = aRepo.remote) =>
       /\ aErr = <<>>
       /\ aStatus # <<>>
       /\ aStatus[1].UnpushedCommits = 0
       /\ aStatus[1].UnpulledCommits = 0

\* A detached HEAD with an origin/HEAD reference on a different commit that
\* shares history with it.
C8_Witness ==
    /\ aPc = "returned"
    /\ aRepo.openOk
    /\ aRepo.headState = "detached"
    /\ aRepo.remote # 0
    /\ aRepo.remote # aRepo.local
    /\ aRepo.mbFirst # 0
    /\ aStatus # <<>>
    /\ aStatus[1].UnpushedCommits = 0

\* the two references resolve to different commits without a common ancestor
UnrelatedHistories ==
    /\ aRepo.openOk
    /\ aRepo.headState = "branch"
    /\ aRepo.remote # 0
    /\ aRepo.local # aRepo.remote
    /\ aRepo.objectsOk
    /\ MergeBases(aRepo.parents, aRepo.local, aRepo.remote) = {}

\* C9: when the local head and the remote-tracking commit have no common
\* ancestor, Analyze returns a status with both counts 0 and no error, and
\* the worker publishes no ScanError for the path.
C9_UnrelatedIsZero ==
    (aPc = "returned" /\ UnrelatedHistories) =>
       /\ aErr = <<>>
       /\ aStatus # <<>>
       /\ aStatus[1].UnpushedCommits = 0
       /\ aStatus[1].UnpulledCommits = 0
       /\ WorkerResult(aPath, aStatus, aErr).err = <<>>

\* Unrelated histories with more than one commit on the local side.
C9_Witness ==
    /\ aPc = "returned"
    /\ UnrelatedHistories
    /\ Cardinality(Ancestors(aRepo.parents, aRepo.local)) > 1
    /\ aStatus # <<>>

\* C10: Analyze returns an error, and no status, exactly when opening the
\* repository fails; then no later phase has run and the worker's result is
\* a ScanError with that path and the error's message. Whatever later phases
\* fail, a status is returned, without an error, holding the zero values
\* (the sentinel "unknown" for the branch) for what the failed phases set.
C10_OnlyOpenFails ==
    /\ aErr # <<>> => aPc = "returned"
    /\ aPc = "returned" =>
          /\ (aErr # <<>>) <=> ~aRepo.openOk
          /\ (aErr # <<>>) <=> (aStatus = <<>>)
          /\ ~aRepo.openOk =>
                /\ aPhases = <<"plain_open">>
                /\ WorkerResult(aPath, aStatus, aErr) =
                      [status |-> <<>>,
                       err |-> <<[Path |-> aPath, Message |-> aRepo.openErr]>>]
          /\ aRepo.openOk =>
                /\ aPhases = <<"plain_open">> \o PhasesAfterOpen(detailMode)
                /\ WorkerResult(aPath, aStatus, aErr) = [status |-> aStatus, err |-> <<>>]
                /\ aRepo.headState = "unresolved" => aStatus[1].Branch = "unknown"
                /\ ~aRepo.probeOk =>
                      aStatus[1].IsClean = FALSE /\ aStatus[1].ChangedFiles = 0
                /\ ~LogFromHeadOk(aRepo) =>
                      /\ aStatus[1].LastCommitTime = 0
                      /\ aStatus[1].RecentCommits = <<>>
                      /\ aStatus[1].LinesChanged = <<>>
                /\ (aRepo.headState # "branch" \/ aRepo.remote = 0 \/ ~aRepo.objectsOk) =>
                      /\ aStatus[1].UnpushedCommits = 0
                      /\ aStatus[1].UnpulledCommits = 0
                /\ ~aRepo.statsOk => aStatus[1].LinesChanged = <<>>

\* In detail mode the dirty probe failed and no commit could be read, and a
\* status came back all the same.
C10_Witness ==
    /\ aPc = "returned"
    /\ detailMode
    /\ aRepo.openOk
    /\ ~aRepo.probeOk
    /\ ~aRepo.objectsOk
    /\ aRepo.remote # 0
    /\ aStatus # <<>>
    /\ aErr = <<>>

\* C11 as stated: the branch phase never fails the pipeline, and the Branch
\* of the returned status is "unknown" whenever HEAD is unresolvable or
\* detached, and the short name of the current branch otherwise.
C11_BranchOrUnknown ==
    (aPc = "returned" /\ aRepo.openOk) =>
       /\ aErr = <<>>
       /\ aStatus # <<>>
       /\ aStatus[1].Branch =
             (IF aRepo.headState \in {"unresolved", "detached"}
              THEN "unknown" ELSE aRepo.branch)

\* C12: IsGhost is true exactly when the time elapsed since LastCommitTime
\* is strictly greater than the ghost threshold. Elapsed time equal to the
\* threshold gives IsGhost = FALSE; with a 30-day threshold, 40 days give
\* TRUE and 29 days give FALSE.
C12_GhostStrictlyAfterThreshold ==
    (aPc = "returned" /\ aRepo.openOk /\ aStatus[1].LastCommitTime # 0) =>
       LET elapsed == Now - aStatus[1].LastCommitTime
       IN /\ aStatus[1].IsGhost <=> (elapsed > ghostThreshold)
          /\ elapsed = ghostThreshold => ~aStatus[1].IsGhost
          /\ (ghostThreshold = 30 /\ elapsed = 40) => aStatus[1].IsGhost
          /\ (ghostThreshold = 30 /\ elapsed = 29) => ~aStatus[1].IsGhost

\* Last active exactly as long ago as the threshold: not a ghost.
C12_Witness ==
    /\ aPc = "returned"
    /\ aRepo.openOk
    /\ aStatus[1].LastCommitTime # 0
    /\ Now - aStatus[1].LastCommitTime = ghostThreshold
    /\ ~aStatus[1].IsGhost

\* C13 as stated: in detail mode RecentCommits holds exactly min(5, number
\* of commits reachable from HEAD) entries, and they are in newest-first
\* order: no entry is older than the one that follows it.
C13_RecentNewestFirst ==
    (aPc = "returned" /\ aRepo.openOk /\ detailMode /\ LogFromHeadOk(aRepo)) =>
       LET rc == aStatus[1].RecentCommits
           n == Cardinality(Ancestors(aRepo.parents, aRepo.local))
       IN /\ Len(rc) = (IF n < 5 THEN n ELSE 5)
          /\ \A i \in 1..(Len(rc) - 1) : rc[i].Timestamp >= rc[i + 1].Timestamp

\* C14: when the dirty probe (git status --porcelain) fails, Analyze still
\* returns a status, with IsClean = FALSE and ChangedFiles = 0; when it
\* succeeds, ChangedFiles is the number of entries (lines) it printed and
\* IsClean holds exactly when ChangedFiles = 0.
C14_ProbeFailureOrCount ==
    (aPc = "returned" /\ aRepo.openOk) =>
       /\ aErr = <<>>
       /\ aStatus # <<>>
       /\ ~aRepo.probeOk =>
             aStatus[1].IsClean = FALSE /\ aStatus[1].ChangedFiles = 0
       /\ aRepo.probeOk =>
             /\ aStatus[1].ChangedFiles = aRepo.changed
             /\ aStatus[1].IsClean <=> (aStatus[1].ChangedFiles = 0)

\* The probe printed two entries and the status counts two changed files.
C14_Witness ==
    /\ aPc = "returned"
    /\ aRepo.openOk
    /\ aRepo.probeOk
    /\ aRepo.changed = 2
    /\ aStatus[1].ChangedFiles = 2
    /\ ~aStatus[1].IsClean

\* the commits of repo reachable from HEAD that were made today
CommitsToday(repo) ==
    Cardinality({c \in Ancestors(repo.parents, repo.local) : repo.when[c] = Now})

\* the commits made today in the repositories the statuses sts are about
RECURSIVE TotalToday(_)
TotalToday(sts) ==
    IF sts = <<>> THEN 0
    ELSE CommitsToday(repos[Head(sts).Path]) + TotalToday(Tail(sts))

\* the value a Go map read gives for the key k: 0 when the key is absent
MapGet(m, k) == IF k \in DOMAIN m THEN m[k] ELSE 0

\* C15 as stated: in detail mode DailyCommits[today] of a scan is the total
\* number of commits made today across all analysed repositories, whatever
\* the number of commits each repository received today.
C15_DailyTotalIsAll ==
    (mainPc = "scanned" /\ config.DetailMode) =>
       MapGet(scanResult[1].DailyCommits, Now) = TotalToday(scanResult[1].Repos)

\* Process has started its workers
PoolRunning == mainPc \in {"enqueue", "collect", "returned", "scanned"}

\* the Analyze calls in flight
InFlight == Cardinality({w \in DOMAIN wpc : wpc[w] = "analyze"})

\* C16: Process for a pool of size W starts exactly W workers and never
\* more, at most W Analyze calls are in flight at any moment and the number
\* of workers does not change during the run; the Scanner puts the default 4
\* in place of a worker count that is not positive, so a scan always runs
\* with at least one worker.
C16_FixedWorkerCount ==
    /\ [](PoolRunning =>
            /\ DOMAIN wpc = 1..workerCount
            /\ InFlight <= workerCount
            /\ workerCount >= 1
            /\ rawConfig.WorkerCount <= 0 => workerCount = 4
            /\ rawConfig.WorkerCount > 0 => workerCount = rawConfig.WorkerCount)
    /\ [][PoolRunning =>
             (workerCount' = workerCount /\ DOMAIN wpc' = DOMAIN wpc)]_vars

\* Configured with no worker count, the scan runs four workers; two of them
\* are analysing at the same time.
C16_Witness ==
    /\ PoolRunning
    /\ rawConfig.WorkerCount = 0
    /\ workerCount = 4
    /\ InFlight = 2

\* some Analyze call has begun
AnalysisBegun ==
    \/ InFlight > 0
    \/ \E p \in DOMAIN analyzeCalls : analyzeCalls[p] > 0
    \/ \E sp \in trace : sp.name = "analyze"

\* findRepos has returned
Discovered == DOMAIN found # {}

\* C17: Scan completes discovery before any Analyze call begins, and when
\* discovery returns an error Scan returns that error with no result object
\* and no repository is analysed.
C17_DiscoveryFirst ==
    /\ ~Discovered => (~AnalysisBegun /\ DOMAIN wpc = {})
    /\ AnalysisBegun => (Discovered /\ found.err = <<>>)
    /\ (Discovered /\ found.err # <<>>) =>
          /\ mainPc = "failed"
          /\ scanErr = found.err
          /\ scanResult = <<>>
          /\ ~AnalysisBegun
          /\ DOMAIN wpc = {}
    /\ scanResult # <<>> => (scanErr = <<>> /\ Discovered /\ found.err = <<>>)

\* The walk failed after it had found repositories: Scan returned the error
\* and nothing was analysed.
C17_Witness ==
    /\ mainPc = "failed"
    /\ Len(found.repos) > 0
    /\ scanErr = <<WalkError>>
    /\ scanResult = <<>>
    /\ ~AnalysisBegun

\* the names of the spans Analyze starts for its phases
PhaseNames ==
    {"plain_open", "branch", "worktree_status", "last_commit", "remote_status",
     "recent_commits", "lines_changed"}

\* C18 as stated: in the trace of a run with tracing enabled, find_repos and
\* process are root spans, every analyze span is a direct child of the
\* process span, and every phase span is a direct child of the analyze span
\* of its repository.
C18_SpanHierarchy ==
    tracingOn =>
       \A sp \in trace :
          /\ sp.name \in {"find_repos", "process"} => sp.parent = NoSpan
          /\ sp.name = "analyze" => sp.parent = <<"process", 0>>
          /\ sp.name \in PhaseNames => sp.parent = <<"analyze", sp.id[2]>>

\* the places of the analyze spans in the span log
LogAnalyzes == {i \in 1..Len(spanLog) : spanLog[i].name = "analyze"}

\* the duration recorded by the span at place i of the log
RecordedDur(i) == spanLog[i].end - spanLog[i].start

\* the sum of the durations recorded by the analyze spans at places 1..i
RECURSIVE SumRecorded(_)
SumRecorded(i) ==
    IF i = 0 THEN 0
    ELSE (IF i \in LogAnalyzes THEN RecordedDur(i) ELSE 0) + SumRecorded(i - 1)

\* C19: from a span log with K analyze spans (their intervals overlapping)
\* reconstruction yields exactly K analysis records, one per analyze span;
\* the computed max is the largest recorded analyze duration, the min the
\* smallest, avg the sum divided by K, so min <= avg <= max, and the
\* repository shown as slowest is one whose duration equals max.
C19_TimingFigures ==
    tPc = "done" =>
       LET K == Cardinality(LogAnalyzes)
           p == parsed[1]
       IN /\ Len(p.analyzes) = K
          /\ {p.analyzes[j].spanID : j \in 1..Len(p.analyzes)}
                = {spanLog[i].id : i \in LogAnalyzes}
          /\ K = 0 => timings = <<>>
          /\ K > 0 =>
                /\ timings # <<>>
                /\ \A i \in LogAnalyzes : timings[1].max >= RecordedDur(i)
                /\ \E i \in LogAnalyzes : timings[1].max = RecordedDur(i)
                /\ \A i \in LogAnalyzes : timings[1].min <= RecordedDur(i)
                /\ \E i \in LogAnalyzes : timings[1].min = RecordedDur(i)
                /\ timings[1].avg = SumRecorded(Len(spanLog)) \div K
                /\ timings[1].min <= timings[1].avg
                /\ timings[1].avg <= timings[1].max
                /\ timings[1].slowestIdx \in 1..K
                /\ p.analyzes[timings[1].slowestIdx].dur = timings[1].max

\* Three overlapping analyze spans of different durations; the slowest is
\* the one that started last.
C19_Witness ==
    /\ tPc = "done"
    /\ Cardinality(LogAnalyzes) = 3
    /\ \A i \in LogAnalyzes : spanLog[i].start <= 1 /\ spanLog[i].end >= 1
    /\ timings # <<>>
    /\ timings[1].min < timings[1].avg
    /\ timings[1].avg < timings[1].max
    /\ timings[1].slowestIdx = 3

\* a is b, or b cut short
IsPrefix(a, b) == Len(a) <= Len(b) /\ SubSeq(b, 1, Len(a)) = a

\* the places of the span sp in the log
PlacesInLog(sp) == {i \in 1..Len(expSpans) : expSpans[i] = sp}

\* every span every goroutine exports
AllExported ==
    UNION {Range(Batch(g, k)) : g \in Exporters, k \in 1..MaxExports}

\* C20: ExportSpans calls made concurrently each append all of their spans
\* to the one log. After any interleaving the log holds every exported span
\* exactly once; spans in the log are never removed, altered or reordered;
\* and Spans() returns a copy of the log as it was, whose later modification
\* does not change the log.
C20_AppendOnlyLog ==
    /\ [](/\ \A sp \in exportedSet : Cardinality(PlacesInLog(sp)) = 1
          /\ \A sp \in AllExported : Cardinality(PlacesInLog(sp)) <= 1
          /\ Range(expSpans) \subseteq AllExported
          /\ (\A g \in Exporters : ecalls[g] = MaxExports) =>
                Range(expSpans) = AllExported
          /\ rpc = "returned" => IsPrefix(snapshot, expSpans)
          /\ rpc = "modified" => snapshot[1] # expSpans[1])
    /\ [][IsPrefix(expSpans, expSpans')]_vars

\* Every call has returned, the two goroutines' spans are interleaved in the
\* log, and the reader has written over the copy it took of the full log.
C20_Witness ==
    /\ \A g \in Exporters : ecalls[g] = MaxExports
    /\ Len(expSpans) = Cardinality(AllExported)
    /\ expSpans[1][1] = 2
    /\ expSpans[3][1] = 1
    /\ expSpans[Len(expSpans)][1] = 2
    /\ rpc = "modified"
    /\ Len(snapshot) = Len(expSpans)
    /\ snapshot[1] = Overwritten

\* C21: when tracing is initialised disabled, no collector is created, no
\* span is started or logged at any point of the run, whatever the number
\* of repositories, and the timing report renders nothing.
C21_DisabledRecordsNothing ==
    ~showTimings =>
       /\ exporter = "nil"
       /\ ~tracingOn
       /\ trace = {}
       /\ openSpans = {}
       /\ tPc = "idle"
       /\ spanLog = <<>>
       /\ parsed = <<>>
       /\ timings = <<>>
       /\ waterfall = <<>>
       /\ tree = <<>>

\* A run without --time has analysed MaxPaths repositories and main has
\* finished.
C21_Witness ==
    /\ ~showTimings
    /\ mainPc = "exit"
    /\ Len(repoPaths) = MaxPaths
    /\ \A p \in Paths : analyzeCalls[p] = 1
    /\ Len(statuses) + Len(errors) = MaxPaths

\* directory d lies strictly below directory r
Below(r, d) == Len(r) < Len(d) /\ SubSeq(d, 1, Len(r)) = r

\* C22 as stated: discovery does not descend below a directory identified as
\* a repository: no directory below a reported repository root is visited, no
\* repository nested in a reported one is reported, and no repository is
\* reported twice.
C22_StopsAtRepository ==
    wkPc = "done" =>
       LET R == Range(found.repos)
       IN /\ \A r \in R : \A d \in walked : ~Below(r, d)
          /\ \A r \in R : \A q \in R : ~Below(r, q)
          /\ \A i, j \in 1..Len(found.repos) :
                i # j => found.repos[i] # found.repos[j]

\* C23 as stated: with max depth D every repository root from one level down
\* to D levels below the root path (and not inside another repository) is
\* reported, and no repository deeper than D levels is.
C23_DepthReachesLevel ==
    wkPc = "done" =>
       LET R == Range(found.repos)
           D == config.MaxDepth
       IN /\ \A d \in dirs :
                (/\ Len(d) \in 1..D
                 /\ Append(d, ".git") \in dirs
                 /\ \A r \in dirs : Below(r, d) => Append(r, ".git") \notin dirs)
                => d \in R
          /\ \A r \in R : Len(r) <= D

\* C24: Process closes the results channel only after every worker has
\* exited, no worker publishes an outcome to the closed channel, the jobs
\* channel is closed once, after all paths were enqueued, and Process
\* returns only when no Analyze call is in flight.
C24_CloseAfterWorkers ==
    /\ [](/\ resultsClosed => \A w \in Workers : wpc[w] = "done"
          /\ jobsClosed => next > Len(repoPaths)
          /\ mainPc = "returned" => (resultsClosed /\ InFlight = 0))
    /\ [][/\ Len(results') > Len(results) => (~resultsClosed /\ ~resultsClosed')
          /\ jobsClosed => jobsClosed'
          /\ resultsClosed => resultsClosed']_vars

\* Process has returned after MaxWorkers workers analysed MaxPaths paths and
\* the results channel was closed.
C24_Witness ==
    /\ mainPc = "returned"
    /\ resultsClosed
    /\ jobsClosed
    /\ workerCount = MaxWorkers
    /\ Len(repoPaths) = MaxPaths
    /\ \A p \in Paths : analyzeCalls[p] = 1
    /\ Cardinality({w \in Workers : claimedBy[1] = {w} \/ claimedBy[2] = {w}}) = 2

\* the phases of Analyze in the order the claim gives them
PhaseOrder ==
    <<"plain_open", "branch", "worktree_status", "last_commit", "remote_status">>
       \o (IF detailMode THEN <<"recent_commits", "lines_changed">> ELSE <<>>)

\* the places in aSpans of the calls made on the span of this name
CallsOn(kind, name) == {i \in 1..Len(aSpans) : aSpans[i] = <<kind, name>>}

\* C25: Analyze runs its phases in the order open, branch, dirty probe, last
\* activity, ahead/behind, then in detail mode recent history and change
\* volume; each phase's span is started after the span of the phase before
\* it has ended; the ghost flag is set last, from the final LastCommitTime,
\* by a step that changes no other field; and when Analyze returns, with a
\* status or with the error of the open, every span it started has ended,
\* the analyze span last.
C25_PhasesInOrder ==
    /\ [](/\ IsPrefix(aPhases, PhaseOrder)
          /\ \A k \in 1..Len(aPhases) :
                /\ aSpans[2 * k] = <<"start", aPhases[k]>>
                /\ aSpans[2 * k + 1] = <<"end", aPhases[k]>>
          /\ aPhases # <<>> => aSpans[1] = <<"start", "analyze">>
          /\ aPc # "returned" /\ aStatus # <<>> => ~aStatus[1].IsGhost
          /\ aPc = "returned" =>
                /\ aSpans[Len(aSpans)] = <<"end", "analyze">>
                /\ \A i \in 1..Len(aSpans) :
                      /\ Cardinality(CallsOn("start", aSpans[i][2])) = 1
                      /\ Cardinality(CallsOn("end", aSpans[i][2])) = 1
                /\ aErr = <<>> => aPhases = PhaseOrder
                /\ aErr # <<>> => aPhases = <<"plain_open">>)
    /\ [][aPc' = "returned" /\ aErr' = <<>> =>
             aStatus'[1] = [aStatus[1] EXCEPT
                              !.IsGhost = Since(aStatus[1].LastCommitTime)
                                             > ghostThreshold]]_vars

\* Analyze has returned the error of the open, its two spans ended.
C25_Witness ==
    /\ aPc = "returned"
    /\ aErr # <<>>
    /\ aSpans = << <<"start", "analyze">>, <<"start", "plain_open">>,
                   <<"end", "plain_open">>, <<"end", "analyze">> >>

\* RenderTimings has been entered and has read the span log
LogRead == tPc \in {"render", "done"}

\* C26: the span log is read only after Scan has returned and the tracer
\* has been shut down; once it is read no span is added to the collector;
\* and when it is read every span started during the run has ended and is
\* in the log with its end time set, the analyze span of every path a
\* worker received among them.
C26_ReadAfterCollection ==
    /\ [](LogRead =>
             /\ scanResult # <<>>
             /\ mainPc = "exit"
             /\ ~tracingOn
             /\ openSpans = {}
             /\ Len(spanLog) = Cardinality(trace)
             /\ \A i \in 1..Len(spanLog) :
                   spanLog[i].end # 0 /\ spanLog[i].end >= spanLog[i].start
             /\ \A p \in Paths : claimedBy[p] # {} =>
                   \E i \in 1..Len(spanLog) :
                      spanLog[i].name = "analyze" /\ spanLog[i].repo = p
             /\ \E i \in 1..Len(spanLog) : spanLog[i].name = "process"
             /\ \E i \in 1..Len(spanLog) : spanLog[i].name = "find_repos")
    /\ [][LogRead => trace' = trace]_vars

\* The log of a run over MaxPaths repositories analysed by different
\* workers has been read and parsed.
C26_Witness ==
    /\ tPc = "done"
    /\ Len(repoPaths) = MaxPaths
    /\ Cardinality({i \in 1..Len(spanLog) : spanLog[i].name = "analyze"}) = MaxPaths
    /\ claimedBy[1] # claimedBy[2]
    /\ Len(parsed[1].analyzes) = MaxPaths

\* the names parseSpans keeps out of the children index
SpecialNames == {"find_repos", "process", "analyze"}

\* how many entries of the list has the span id
TimesIn(list, id) ==
    Cardinality({k \in 1..Len(list) : list[k] = id})

\* the span at place i of the log descends from the span a through at most
\* n parent links, every span on the way being in the children index
RECURSIVE DescendsFrom(_, _, _)
DescendsFrom(i, a, n) ==
    /\ n > 0
    /\ i \in 1..Len(spanLog)
    /\ spanLog[i].name \notin SpecialNames
    /\ spanLog[i].parent # 0
    /\ \/ spanLog[i].parent = a
       \/ DescendsFrom(spanLog[i].parent, a, n - 1)

\* every span with a valid parent and a name of its own is once in the list
\* of its parent and in no other list
IndexedOnce ==
    LET p == parsed[1]
    IN \A i \in 1..Len(spanLog) :
          (spanLog[i].name \notin SpecialNames /\ spanLog[i].parent # 0) =>
             /\ spanLog[i].parent \in DOMAIN p.children
             /\ \A q \in DOMAIN p.children :
                   TimesIn([k \in 1..Len(p.children[q]) |->
                               p.children[q][k].spanID], i)
                      = (IF q = spanLog[i].parent THEN 1 ELSE 0)

\* the breakdown holds every descendant of the slowest analyze span once
\* and nothing else, the children of one parent by start time
WalkedOnce ==
    LET slowest == parsed[1].analyzes[timings[1].slowestIdx]
    IN /\ \A i \in 1..Len(spanLog) :
             TimesIn(tree, i)
                = (IF DescendsFrom(i, slowest.spanID, Len(spanLog))
                   THEN 1 ELSE 0)
       /\ \A j, k \in 1..Len(tree) :
             (j < k /\ spanLog[tree[j]].parent = spanLog[tree[k]].parent) =>
                spanLog[tree[j]].start <= spanLog[tree[k]].start

\* C27 amended: parseSpans places every span that has a valid parent id and
\* is not named find_repos, process or analyze exactly once in the children
\* list of its parent id and in no other list; and when the slowest analyze
\* span has a duration above zero, the breakdown walked from it visits every
\* descendant span of that analyze span exactly once, children of one
\* parent in order of start time.
C27_ChildrenIndexedAndWalked ==
    tPc = "done" =>
       /\ IndexedOnce
       /\ (timings # <<>> /\ timings[1].max > 0) => WalkedOnce

\* the breakdown holds two children of one span, printed by start time
\* against their order in the log
SiblingsSorted ==
    /\ tPc = "done"
    /\ Len(tree) = 2
    /\ spanLog[tree[1]].parent = spanLog[tree[2]].parent
    /\ spanLog[tree[1]].start < spanLog[tree[2]].start
    /\ tree[1] > tree[2]

\* The breakdown of the slowest analyze span holds a child and, after it,
\* the child of that child, which ended and was logged before it.
C27_Witness ==
    /\ tPc = "done"
    /\ Len(tree) = 2
    /\ spanLog[tree[2]].parent = tree[1]
    /\ tree[1] > tree[2]
    /\ timings[1].max > 0

\* C27 as stated: the breakdown visits every descendant of the slowest
\* analyze span, whatever its duration.
C27_AsStated ==
    tPc = "done" =>
       /\ IndexedOnce
       /\ timings # <<>> => WalkedOnce

\* the places in the log of the spans of this name
LogNamed(name) == {i \in 1..Len(spanLog) : spanLog[i].name = name}

SomeGoroutineCanRun ==
    \/ ENABLED ProcessStep
    \/ ENABLED WaitAndClose
    \/ \E w \in Workers : ENABLED WorkerStep(w)

\* C29: with a worker count of at least 1 and any list of paths, every
\* Analyze call returning, Process eventually returns; the send of a path
\* to the jobs channel is never blocked, a worker holding an outcome is
\* never blocked publishing it, and until Process has returned some
\* goroutine of it can take a step.
C29_ProcessTerminates ==
    /\ (workerCount >= 1) ~> (mainPc = "returned")
    /\ [](workerCount >= 1 =>
             /\ (mainPc = "enqueue" /\ next <= Len(repoPaths)) => ENABLED Enqueue
             /\ \A w \in Workers : wpc[w] = "analyze" => ENABLED WorkerAnalyze(w)
             /\ mainPc # "returned" => SomeGoroutineCanRun)

\* Process has returned with one worker having analysed MaxPaths paths,
\* the context cancelled on the way.
C29_Witness ==
    /\ mainPc = "returned"
    /\ workerCount = 1
    /\ Len(repoPaths) = MaxPaths
    /\ Len(statuses) + Len(errors) = MaxPaths
    /\ \A p \in Paths : claimedBy[p] = {1}
    /\ ctxDone

\* the repository analysed opens and its history gives no commit: the log
\* cannot be started from HEAD, or it is empty
NoLastCommit ==
    /\ aRepo.openOk
    /\ (~LogFromHeadOk(aRepo) \/ Log(aRepo, aRepo.local) = <<>>)

\* C30 amended: a successfully opened repository whose last-activity lookup
\* fails or that has no commits keeps a zero LastCommitTime and is
\* classified IsGhost = TRUE for every ghost threshold below the largest
\* Duration; with the threshold set to the largest Duration it is
\* classified IsGhost = FALSE.
C30_NoCommitIsGhost ==
    (aPc = "returned" /\ NoLastCommit) =>
       /\ aStatus[1].LastCommitTime = 0
       /\ aStatus[1].IsGhost <=> (ghostThreshold < MaxDuration)

\* Analyze has returned the status of a repository without commits, and
\* that of one whose objects cannot be read, as a ghost under the
\* threshold of 40 days.
C30_Witness ==
    /\ aPc = "returned"
    /\ NoLastCommit
    /\ ghostThreshold = 40
    /\ aStatus[1].LastCommitTime = 0
    /\ aStatus[1].IsGhost

\* C30 as stated: such a repository is classified IsGhost = TRUE for every
\* configured ghost threshold.
C30_AnyThreshold ==
    (aPc = "returned" /\ NoLastCommit) =>
       /\ aStatus[1].LastCommitTime = 0
       /\ aStatus[1].IsGhost

====
